---- MODULE Spec2Model ----
(***************************************************************************)
(* A model of the profile-memory engine of MemMachine:                     *)
(*   - util/lru_cache.py        LRUCache (dict + doubly linked list)       *)
(*   - profile_memory.py        ProfileUpdateTracker(Manager), the range   *)
(*                              filter, the facade and the ingestion worker*)
(* Each subsystem has its own variables and its own specification; the     *)
(* variables of the other subsystems stay at their initial value.          *)
(***************************************************************************)
EXTENDS Integers, Sequences, FiniteSets, TLC

VARIABLES
  \* --- LRUCache (util/lru_cache.py)
  lru,          \* the cache object: capacity, cache (key -> node), node (heap)
  touched,      \* history: the keys touched so far, oldest first
  lru_last,     \* history: what the last call did
  lru_ret,      \* value returned by the last get
  lru_capacity, \* the argument of the constructor call
  \* --- ProfileUpdateTrackerManager (profile_memory.py)
  now,          \* the wall clock, in seconds
  tm,           \* the manager: _trackers (with dict order), lock, limits
  mark_pc,      \* per user: position of an in-flight mark_update call
  get_pc,       \* position of the in-flight get_users_to_update call
  get_todo,     \* users the loop of get_users_to_update has still to visit
  get_ret,      \* its list `ret`
  g_n,          \* history: marks of each user since its last drain
  g_first,      \* history: time of the first of those marks
  g_call,       \* history: the last completed get_users_to_update call
  \* --- ProfileMemory.range_filter (profile_memory.py)
  rf_arr,       \* argument arr: a list of <<score, item>>
  rf_max_range, \* argument max_range
  rf_max_std,   \* argument max_std
  rf_pc,        \* "input", then "done" (returned) or "raised" (TypeError)
  rf_out,       \* the list returned
  \* --- ProfileMemory: ingestion (profile_memory.py)
  history,            \* storage: the history table, in (created_at, id) order
  _dirty_users,       \* ProfileMemory._dirty_users
  ing_now,            \* the wall clock, in seconds
  _is_shutting_down,  \* ProfileMemory._is_shutting_down
  w_pc,               \* position of _background_ingestion_task
  ut,                 \* per user: the _process_uningested_memories task
  gt,                 \* the process_messages tasks, by <<user, group number>>
  apm,                \* the in-flight add_persona_message call
  g_msg,              \* history: per message, what the worker did with it
  cleanup_pc,         \* position of the cleanup call
  \* --- ProfileMemory: the profile and its cache (profile_memory.py)
  _profile_cache,     \* ProfileMemory._profile_cache
  profile,            \* storage: the profile table
  next_pid,           \* storage: the id of the next profile row
  calls,              \* the calls in flight
  f_done,             \* history: the write that has just returned
  f_ret,              \* history: the get_user_profile that has just returned
  \* --- ProfileMemory._deduplicate_profile: derived isolations
  ci_associations,    \* what get_all_citations_for_ids returned
  ci_pc,              \* "input", then "done"
  ci_out,             \* new_isolations
  \* --- ProfileMemory._deduplicate_profile: one call
  dd_history,               \* storage: history id -> isolations
  dd_profile,               \* storage: the profile rows, with their citations
  memories,                 \* argument memories: the ids of the section
  updated_profile_entries,  \* the parsed answer of the model
  dd_pc,                    \* position of the call
  dd_i,                     \* index of the loop the call is in
  consolidate_memory,       \* the consolidated memory the loop is at
  dd_associations,          \* what get_all_citations_for_ids returned
  dd_added,                 \* history: the entries the call added
  \* --- ProfileMemory._update_user_profile_think: one call
  up_profile,               \* storage: the live profile rows of the user
  up_before,                \* history: the rows before the call
  up_isolations,            \* the isolations of the message
  up_response,              \* the answer of the model
  up_pc,                    \* position of the call
  up_i,                     \* index of the command loop
  up_record,                \* argument record: the id and the user of the message
  up_calls,                 \* history: the storage calls the call has issued
  \* --- the JSON candidate of a response without think tags
  response_text,            \* the answer of the model, one character per element
  response_json,            \* the candidate handed to the clean-up and json.loads
  ex_pc,                    \* position of the extraction
  \* --- ResourceInitializer.initialize (common/resource_initializer.py)
  resource_dependency_graph, \* resource id -> the dependency ids of its builder
  resource_cache,            \* argument resource_cache: the ids it holds
  dependency_counts,         \* order_resources: dependency_counts
  dependent_resource_ids,    \* order_resources: dependent_resource_ids
  ri_queue,                  \* order_resources: queue
  ordered_resource_ids,      \* order_resources: ordered_resource_ids
  initialized_resources,     \* the ids built, in the order of the dict
  ri_injections,             \* history: the injections each build was given
  ri_pc,                     \* position of the call
  ri_i,                      \* index of the build loop
  \* --- ProfileMemory.startup (profile_memory.py)
  startup_pc,                \* position of the startup call
  \* --- Reranker.rerank (common/reranker/reranker.py)
  rr_candidates,             \* argument candidates
  rr_scores,                 \* what self.score returned
  rr_out,                    \* the list returned
  rr_pc                      \* position of the call

lruVars == <<lru, touched, lru_last, lru_ret, lru_capacity>>
trkVars == <<now, tm, mark_pc, get_pc, get_todo, get_ret, g_n, g_first, g_call>>
rfVars == <<rf_arr, rf_max_range, rf_max_std, rf_pc, rf_out>>
ingVars == <<history, _dirty_users, ing_now, _is_shutting_down, w_pc, ut, gt, apm,
             g_msg, cleanup_pc>>

facVars == <<_profile_cache, profile, next_pid, calls, f_done, f_ret>>

isoVars == <<ci_associations, ci_pc, ci_out>>

dedupVars == <<dd_history, dd_profile, memories, updated_profile_entries, dd_pc, dd_i,
               consolidate_memory, dd_associations, dd_added>>

updVars == <<up_profile, up_before, up_isolations, up_response, up_pc, up_i,
             up_record, up_calls>>

exVars == <<response_text, response_json, ex_pc>>

riVars == <<resource_dependency_graph, resource_cache, dependency_counts,
            dependent_resource_ids, ri_queue, ordered_resource_ids,
            initialized_resources, ri_injections, ri_pc, ri_i>>

suVars == <<startup_pc>>

rrVars == <<rr_candidates, rr_scores, rr_out, rr_pc>>

vars == <<lruVars, trkVars, rfVars, ingVars, facVars, isoVars, dedupVars, updVars, exVars, riVars, suVars, rrVars>>
\* what the actions of one subsystem leave alone
notLRU == <<trkVars, rfVars, ingVars, facVars, isoVars, dedupVars, updVars, exVars, riVars, suVars, rrVars>>
notTrk == <<lruVars, rfVars, ingVars, facVars, isoVars, dedupVars, updVars, exVars, riVars, suVars, rrVars>>
notRF == <<lruVars, trkVars, ingVars, facVars, isoVars, dedupVars, updVars, exVars, riVars, suVars, rrVars>>
notIng == <<lruVars, trkVars, rfVars, facVars, isoVars, dedupVars, updVars, exVars, riVars, suVars, rrVars>>
notFac == <<lruVars, trkVars, rfVars, ingVars, isoVars, dedupVars, updVars, exVars, riVars, suVars, rrVars>>
notIso == <<lruVars, trkVars, rfVars, ingVars, facVars, dedupVars, updVars, exVars, riVars, suVars, rrVars>>
notDedup == <<lruVars, trkVars, rfVars, ingVars, facVars, isoVars, updVars, exVars, riVars, suVars, rrVars>>
notUpd == <<lruVars, trkVars, rfVars, ingVars, facVars, isoVars, dedupVars, exVars, riVars, suVars, rrVars>>
notEx == <<lruVars, trkVars, rfVars, ingVars, facVars, isoVars, dedupVars, updVars, riVars, suVars, rrVars>>
notRI == <<lruVars, trkVars, rfVars, ingVars, facVars, isoVars, dedupVars, updVars, exVars, suVars, rrVars>>
notSU == <<lruVars, trkVars, rfVars, ingVars, facVars, isoVars, dedupVars, updVars, exVars, riVars, rrVars>>
notRR == <<lruVars, trkVars, rfVars, ingVars, facVars, isoVars, dedupVars, updVars, exVars, riVars, suVars>>

-----------------------------------------------------------------------------
(***************************************************************************)
(* LRUCache.  A Node is a heap cell with an address; head and tail are the *)
(* two sentinel cells.  `cache` maps a key to the address of its node.     *)
(* A node that is unlinked and dropped from `cache` is garbage and leaves  *)
(* the heap.                                                               *)
(***************************************************************************)
MaxCapacity == 2
MaxTouches == 5
Keys == {"a", "b", "c"}
Values == {"v", "w"}

None == "None"
NoneRef == -1
HEAD == 0
TAIL == 1

Node(key, value) == [key |-> key, value |-> value, prev |-> NoneRef, next |-> NoneRef]

LRUCache(capacity) ==
  [capacity |-> capacity,
   cache |-> <<>>,
   node |-> (HEAD :> [Node(None, None) EXCEPT !.next = TAIL]) @@
            (TAIL :> [Node(None, None) EXCEPT !.prev = HEAD])]

\* the address given to a new Node: the lowest one not on the heap
NewRef(nodes) == CHOOSE r \in 2..(Cardinality(DOMAIN nodes) + 2) :
                   /\ r \notin DOMAIN nodes
                   /\ \A q \in 2..(r - 1) : q \in DOMAIN nodes

_remove_node_forward_only(nodes, n) ==
  IF nodes[n].prev # NoneRef /\ nodes[n].next # NoneRef
  THEN [nodes EXCEPT ![nodes[n].prev].next = nodes[n].next]
  ELSE nodes

_remove_node(nodes, n) ==
  IF nodes[n].prev # NoneRef /\ nodes[n].next # NoneRef
  THEN LET prev_node == nodes[n].prev
           next_node == nodes[n].next
           n1 == [nodes EXCEPT ![prev_node].next = next_node]
       IN  [n1 EXCEPT ![next_node].prev = prev_node]
  ELSE nodes

_add_to_front(nodes, n) ==
  LET first == nodes[HEAD].next
      n1 == [nodes EXCEPT ![n].prev = HEAD, ![n].next = first]
      n2 == IF first # NoneRef THEN [n1 EXCEPT ![first].prev = n] ELSE n1
  IN  [n2 EXCEPT ![HEAD].next = n]

Drop(f, x) == [y \in DOMAIN f \ {x} |-> f[y]]

LRUCache_erase(c, key) ==
  IF key \in DOMAIN c.cache
  THEN LET n == c.cache[key]
       IN  [c EXCEPT !.node = Drop(_remove_node(c.node, n), n),
                     !.cache = Drop(c.cache, key)]
  ELSE c

LRUCache_get_nopromote(c, key) == c

\* the cache after get(key); the value get returns is LRUCache_get_value
LRUCache_get(c, key) ==
  IF key \in DOMAIN c.cache
  THEN LET n == c.cache[key]
       IN  [c EXCEPT !.node = _add_to_front(_remove_node(c.node, n), n)]
  ELSE c

LRUCache_get_value(c, key) ==
  IF key \in DOMAIN c.cache THEN c.node[c.cache[key]].value ELSE None

LRUCache_put(c, key, value) ==
  IF key \in DOMAIN c.cache
  THEN LET n == c.cache[key]
           n1 == [c.node EXCEPT ![n].value = value]
       IN  [c EXCEPT !.node = _add_to_front(_remove_node(n1, n), n)]
  ELSE LET evict == /\ Cardinality(DOMAIN c.cache) >= c.capacity
                    /\ c.node[TAIL].prev # NoneRef
                    /\ c.node[TAIL].prev # HEAD
           lru_node == c.node[TAIL].prev
           c1 == IF evict
                 THEN [c EXCEPT !.node = Drop(_remove_node(c.node, lru_node), lru_node),
                                !.cache = Drop(c.cache, c.node[lru_node].key)]
                 ELSE c
           new_node == NewRef(c1.node)
           heap == c1.node @@ (new_node :> Node(key, value))
       IN  [c1 EXCEPT !.cache = c1.cache @@ (key :> new_node),
                      !.node = _add_to_front(heap, new_node)]

\* the keys of the nodes linked from head.next to tail, head side first
RECURSIVE Chain(_, _, _)
Chain(nodes, n, fuel) ==
  IF n = TAIL \/ n = NoneRef \/ fuel = 0 THEN <<>>
  ELSE <<nodes[n].key>> \o Chain(nodes, nodes[n].next, fuel - 1)

LRUOrder(c) == Chain(c.node, c.node[HEAD].next, Cardinality(DOMAIN c.node))

\* __init__ with its check of the argument: the exception leaves no object
LRUCache_init_negative_only(capacity) ==
  IF capacity < 0 THEN [raised |-> TRUE, self |-> None]
  ELSE [raised |-> FALSE, self |-> LRUCache(capacity)]

LRUCache_init(capacity) ==
  IF capacity <= 0 THEN [raised |-> TRUE, self |-> None]
  ELSE [raised |-> FALSE, self |-> LRUCache(capacity)]

CapacityArgs == (0 - 1)..MaxCapacity

LRUInit ==
  /\ \E n \in 1..MaxCapacity : lru = LRUCache(n) /\ lru_capacity = n
  /\ touched = <<>>
  /\ lru_last = "new"
  /\ lru_ret = None

LRUGet(key) ==
  /\ key \in DOMAIN lru.cache => Len(touched) < MaxTouches
  /\ lru' = LRUCache_get(lru, key)
  /\ lru_ret' = LRUCache_get_value(lru, key)
  /\ touched' = IF key \in DOMAIN lru.cache THEN Append(touched, key) ELSE touched
  /\ lru_last' = IF key \in DOMAIN lru.cache THEN "get_hit" ELSE "get_miss"
  /\ UNCHANGED <<lru_capacity, notLRU>>

LRUPut(key, value) ==
  /\ Len(touched) < MaxTouches
  /\ lru' = LRUCache_put(lru, key, value)
  /\ touched' = Append(touched, key)
  /\ lru_last' = IF key \in DOMAIN lru.cache THEN "put_update"
                 ELSE IF Cardinality(DOMAIN lru.cache) >= lru.capacity THEN "put_evict"
                 ELSE "put_new"
  /\ UNCHANGED <<lru_ret, lru_capacity, notLRU>>

LRUErase(key) ==
  /\ key \in DOMAIN lru.cache => Len(touched) < MaxTouches
  /\ lru' = LRUCache_erase(lru, key)
  /\ touched' = IF key \in DOMAIN lru.cache THEN Append(touched, key) ELSE touched
  /\ lru_last' = IF key \in DOMAIN lru.cache THEN "erase_hit" ELSE "erase_miss"
  /\ UNCHANGED <<lru_ret, lru_capacity, notLRU>>

\* cache = LRUCache(capacity), before any call on the object
LRUCallInit ==
  /\ lru = None
  /\ lru_capacity \in CapacityArgs
  /\ touched = <<>>
  /\ lru_last = "call"
  /\ lru_ret = None

LRUNew ==
  /\ lru_last = "call"
  /\ LET r == LRUCache_init(lru_capacity)
     IN  /\ lru' = r.self
         /\ lru_last' = IF r.raised THEN "raised" ELSE "new"
  /\ UNCHANGED <<touched, lru_ret, lru_capacity, notLRU>>

\* the calls made on a constructed object
LRUUse ==
  /\ lru_last \notin {"call", "raised"}
  /\ \/ \E k \in Keys : LRUGet(k)
     \/ \E k \in Keys, v \in Values : LRUPut(k, v)

LRUNewNext == LRUNew \/ LRUUse


-----------------------------------------------------------------------------
(***************************************************************************)
(* ProfileUpdateTracker and ProfileUpdateTrackerManager.  Time is counted  *)
(* in whole seconds.  The manager's critical sections are entered through  *)
(* `async with self._trackers_lock`; a call is modelled as acquire, then   *)
(* the statements of its body, then release with the return.               *)
(***************************************************************************)
Users == {"u1", "u2"}
MessageLimits == {2, 3}
TimeLimits == {60}
TickSteps == {10, 51}
MaxNow == 71
MaxCount == 3
NoTime == -1

ProfileUpdateTracker(user, message_limit, time_limit_sec) ==
  [_user |-> user, _message_limit |-> message_limit, _time_limit |-> time_limit_sec,
   _message_count |-> 0, _first_updated |-> NoTime]

Tracker_mark_update(t, clock) ==
  [t EXCEPT !._message_count = @ + 1,
            !._first_updated = IF @ = NoTime THEN clock ELSE @]

Tracker_reset(t) == [t EXCEPT !._message_count = 0, !._first_updated = NoTime]

should_update_strict(t, clock) ==
  /\ t._message_count # 0
  /\ \/ t._first_updated # NoTime /\ clock - t._first_updated > t._time_limit
     \/ t._message_count >= t._message_limit

should_update_count_only(t, clock) == t._message_count >= t._message_limit

should_update(t, clock) ==
  IF t._message_count = 0 THEN FALSE
  ELSE LET exceed_time_limit == /\ t._first_updated # NoTime
                                /\ clock - t._first_updated >= t._time_limit
           exceed_msg_limit == t._message_count >= t._message_limit
       IN  exceed_time_limit \/ exceed_msg_limit

ProfileUpdateTrackerManager(message_limit, time_limit_sec) ==
  [_trackers |-> <<>>, order |-> <<>>, _trackers_lock |-> FALSE,
   _message_limit |-> message_limit, _time_limit_sec |-> time_limit_sec]

\* asyncio.Lock.acquire returns only while the lock is free
lock_acquire_unguarded(m) == TRUE

lock_acquire(m) == m._trackers_lock = FALSE

\* body of ProfileUpdateTrackerManager.mark_update
Manager_mark_update(m, user, clock) ==
  LET m1 == IF user \notin DOMAIN m._trackers
            THEN [m EXCEPT !._trackers = @ @@ (user :>
                      ProfileUpdateTracker(user, m._message_limit, m._time_limit_sec)),
                           !.order = Append(@, user)]
            ELSE m
  IN  [m1 EXCEPT !._trackers[user] = Tracker_mark_update(@, clock)]

\* one pass of the loop body of get_users_to_update; r is <<manager, ret>>
Manager_visit(r, user, clock) ==
  IF should_update(r[1]._trackers[user], clock)
  THEN <<[r[1] EXCEPT !._trackers[user] = Tracker_reset(@)], Append(r[2], user)>>
  ELSE r

\* the whole loop of get_users_to_update over the users in `todo`
RECURSIVE Manager_loop(_, _, _)
Manager_loop(r, todo, clock) ==
  IF todo = <<>> THEN r
  ELSE Manager_loop(Manager_visit(r, Head(todo), clock), Tail(todo), clock)

get_users_to_update(m, clock) == Manager_loop(<<m, <<>> >>, m.order, clock)

Range(s) == {s[i] : i \in 1..Len(s)}

\* the firing condition of the design, on the history variables
Due(n, first, clock, m) ==
  n >= 1 /\ (n >= m._message_limit \/ clock - first >= m._time_limit_sec)

NoCall == [ret |-> {}, lo |-> {}, hi |-> {}, done |-> FALSE, before |-> <<>>,
           n |-> [u \in Users |-> 0]]

\* the record of a completed call is kept only in the state it returns to
Forget(call) == IF call.done THEN NoCall ELSE call

TrkInit ==
  /\ now = 0
  /\ \E ml \in MessageLimits, tl \in TimeLimits :
       tm = ProfileUpdateTrackerManager(ml, tl)
  /\ mark_pc = [u \in Users |-> "idle"]
  /\ get_pc = "idle"
  /\ get_todo = <<>>
  /\ get_ret = <<>>
  /\ g_n = [u \in Users |-> 0]
  /\ g_first = [u \in Users |-> NoTime]
  /\ g_call = NoCall

Tick(d) ==
  /\ now + d <= MaxNow
  /\ now' = now + d
  /\ g_call' = Forget(g_call)
  /\ UNCHANGED <<tm, mark_pc, get_pc, get_todo, get_ret, g_n, g_first, notTrk>>

\* mark_update is called and waits for the lock
MarkCall(u) ==
  /\ mark_pc[u] = "idle"
  /\ u \in DOMAIN tm._trackers => tm._trackers[u]._message_count < MaxCount
  /\ mark_pc' = [mark_pc EXCEPT ![u] = "waiting"]
  /\ g_call' = Forget(g_call)
  /\ UNCHANGED <<now, tm, get_pc, get_todo, get_ret, g_n, g_first, notTrk>>

MarkAcquire(u) ==
  /\ mark_pc[u] = "waiting"
  /\ lock_acquire(tm)
  /\ tm' = [tm EXCEPT !._trackers_lock = TRUE]
  /\ mark_pc' = [mark_pc EXCEPT ![u] = "locked"]
  /\ g_call' = Forget(g_call)
  /\ UNCHANGED <<now, get_pc, get_todo, get_ret, g_n, g_first, notTrk>>

MarkBody(u) ==
  /\ mark_pc[u] = "locked"
  /\ tm' = [Manager_mark_update(tm, u, now) EXCEPT !._trackers_lock = FALSE]
  /\ mark_pc' = [mark_pc EXCEPT ![u] = "idle"]
  /\ g_n' = [g_n EXCEPT ![u] = @ + 1]
  /\ g_first' = [g_first EXCEPT ![u] = IF g_n[u] = 0 THEN now ELSE @]
  /\ g_call' = Forget(g_call)
  /\ UNCHANGED <<now, get_pc, get_todo, get_ret, notTrk>>

GetAcquire ==
  /\ get_pc = "idle"
  /\ lock_acquire(tm)
  /\ tm' = [tm EXCEPT !._trackers_lock = TRUE]
  /\ get_pc' = "locked"
  /\ get_todo' = tm.order
  /\ get_ret' = <<>>
  /\ g_call' = [ret |-> {}, done |-> FALSE, before |-> tm._trackers, n |-> g_n,
                lo |-> {u \in Users : Due(g_n[u], g_first[u], now, tm)}, hi |-> {}]
  /\ UNCHANGED <<now, mark_pc, g_n, g_first, notTrk>>

GetVisit ==
  /\ get_pc = "locked"
  /\ get_todo # <<>>
  /\ LET r == Manager_visit(<<tm, get_ret>>, Head(get_todo), now)
     IN  tm' = r[1] /\ get_ret' = r[2]
  /\ get_todo' = Tail(get_todo)
  /\ UNCHANGED <<now, mark_pc, get_pc, g_n, g_first, g_call, notTrk>>

GetReturn ==
  /\ get_pc = "locked"
  /\ get_todo = <<>>
  /\ tm' = [tm EXCEPT !._trackers_lock = FALSE]
  /\ get_pc' = "idle"
  /\ g_call' = [g_call EXCEPT !.ret = Range(get_ret), !.done = TRUE,
                  !.hi = {u \in Users : Due(g_call.n[u], g_first[u], now, tm)}]
  /\ g_n' = [u \in Users |-> IF u \in Range(get_ret) THEN 0 ELSE g_n[u]]
  /\ g_first' = [u \in Users |-> IF u \in Range(get_ret) THEN NoTime ELSE g_first[u]]
  /\ UNCHANGED <<now, mark_pc, get_todo, get_ret, notTrk>>

TrkNext ==
  \/ \E d \in TickSteps : Tick(d)
  \/ \E u \in Users : MarkCall(u)
  \/ \E u \in Users : MarkAcquire(u)
  \/ \E u \in Users : MarkBody(u)
  \/ GetAcquire
  \/ GetVisit
  \/ GetReturn

-----------------------------------------------------------------------------
(***************************************************************************)
(* ProfileMemory.range_filter.  Scores, max_range and max_std are counted  *)
(* in hundredths, so that the arithmetic is exact: with s the sum and sq   *)
(* the sum of squares of the first d scores,                               *)
(*     ((sq - s*s/d)/d) ** 0.5 < max_std  iff  d*sq - s*s < max_std^2*d^2. *)
(* In floating point the radicand of a prefix of two or more equal scores  *)
(* (exactly 0) can come out slightly negative; its square root is then a   *)
(* complex number and the comparison raises TypeError.  That outcome is a  *)
(* choice of the call.                                                     *)
(***************************************************************************)
MaxLen == 3
ScoreVals == {40, 41, 85, 90}
RangeVals == {0, 20, 50, 60}
StdVals == {0, 3, 24, 100}

Descending(k) == \A i \in 1..(Len(k) - 1) : k[i] >= k[i + 1]

ScoreLists == {k \in UNION {[1..n -> ScoreVals] : n \in 0..MaxLen} : Descending(k)}

RECURSIVE SumTo(_, _)
SumTo(k, d) == IF d = 0 THEN 0 ELSE SumTo(k, d - 1) + k[d]

RECURSIVE SquareSumTo(_, _)
SquareSumTo(k, d) == IF d = 0 THEN 0 ELSE SquareSumTo(k, d - 1) + k[d] * k[d]

\* d*d times the radicand (sq - s*s/d)/d of the first d scores
Radicand(k, d) == d * SquareSumTo(k, d) - SumTo(k, d) * SumTo(k, d)

StdBelow(k, d, max_std) == Radicand(k, d) < max_std * max_std * d * d

SetMax(S) == CHOOSE x \in S : \A y \in S : y <= x

Take(k, max_std) ==
  SetMax({IF StdBelow(k, d, max_std) THEN d ELSE -1 : d \in 1..Len(k)})

RECURSIVE Filtered(_, _, _, _)
Filtered(k, v, n, new_min) ==
  IF n <= 0 THEN <<>>
  ELSE Filtered(k, v, n - 1, new_min) \o (IF k[n] > new_min THEN <<v[n]>> ELSE <<>>)

RECURSIVE FilteredBelow(_, _, _, _)
FilteredBelow(k, v, n, new_min) ==
  IF n <= 0 THEN <<>>
  ELSE FilteredBelow(k, v, n - 1, new_min) \o (IF k[n] < new_min THEN <<v[n]>> ELSE <<>>)

Min2(a, b) == IF a < b THEN a ELSE b

range_filter_inverted(arr, max_range, max_std) ==
  IF Len(arr) = 0 THEN <<>>
  ELSE LET k == [i \in 1..Len(arr) |-> arr[i][1]]
           v == [i \in 1..Len(arr) |-> arr[i][2]]
       IN  FilteredBelow(k, v, Min2(Take(k, max_std), Len(arr)), arr[1][1] - max_range)

range_filter(arr, max_range, max_std) ==
  IF Len(arr) = 0 THEN <<>>
  ELSE LET new_min == arr[1][1] - max_range
           k == [i \in 1..Len(arr) |-> arr[i][1]]
           v == [i \in 1..Len(arr) |-> arr[i][2]]
           take == Take(k, max_std)
       IN  Filtered(k, v, Min2(take, Len(arr)), new_min)

\* some prefix of three or more scores has radicand exactly 0: in floating point
\* sq - s * s / d may then be negative, its power 0.5 complex, and the comparison
\* with max_std a TypeError (for one or two scores the difference is exactly 0)
range_filter_may_raise(arr) ==
  \E d \in 3..Len(arr) : Radicand([i \in 1..Len(arr) |-> arr[i][1]], d) = 0

RFInit ==
  /\ \E k \in ScoreLists : rf_arr = [i \in 1..Len(k) |-> <<k[i], i>>]
  /\ rf_max_range \in RangeVals
  /\ rf_max_std \in StdVals
  /\ rf_pc = "input"
  /\ rf_out = <<>>

RFCall ==
  /\ rf_pc = "input"
  /\ \E negative \in BOOLEAN :
       IF negative /\ range_filter_may_raise(rf_arr)
       THEN rf_pc' = "raised" /\ rf_out' = <<>>
       ELSE rf_pc' = "done" /\ rf_out' = range_filter(rf_arr, rf_max_range, rf_max_std)
  /\ UNCHANGED <<rf_arr, rf_max_range, rf_max_std, notRF>>

RFNext == RFCall

-----------------------------------------------------------------------------
(***************************************************************************)
(* The ingestion worker of ProfileMemory.  A coroutine moves from one      *)
(* await to the next in one step; asyncio.gather runs its tasks            *)
(* interleaved, hands the first exception to its caller at once and lets   *)
(* the other tasks run on.  The storage, the embedder and the language     *)
(* model are collaborators: each call to one of them either returns or     *)
(* raises.  Of an LLM response only the outcome of parsing it is kept.     *)
(***************************************************************************)
PROFILE_UPDATE_MESSAGE_LIMIT == 5
PROFILE_UPDATE_TIME_LIMIT_SEC == 120
HistoryBatch == 100
MaxMessages == 3
MaxIngTicks == 2
MaxCommands == 1

\* the isolations column of a history row, as the JSON text the storage returns;
\* listed in the order of their key_fn values
IsoTexts == <<"{\"g\": \"G\"}", "{}">>
IsoSet == {IsoTexts[i] : i \in 1..Len(IsoTexts)}

\* key_fn of _get_isolation_grouped_memories: the JSON encoding of that text is
\* one-to-one, so the text stands for it; KeyRank is its place in sorted order
key_fn(r) == r.isolations
KeyRank(key) == CHOOSE i \in 1..Len(IsoTexts) : IsoTexts[i] = key

\* storage.add_history
add_history_lost(h, user_id, isolations) == h

add_history(h, user_id, isolations) ==
  Append(h, [id |-> Len(h) + 1, user_id |-> user_id, isolations |-> isolations,
             is_ingested |-> FALSE])

FirstN(q, k) == IF k = 0 \/ Len(q) <= k THEN q ELSE SubSeq(q, 1, k)

RECURSIVE SelectRows(_, _, _)
SelectRows(h, user_id, is_ingested) ==
  IF h = <<>> THEN <<>>
  ELSE LET r == Head(h)
           rest == SelectRows(Tail(h), user_id, is_ingested)
       IN  IF r.user_id = user_id /\ r.is_ingested = is_ingested
           THEN <<r>> \o rest ELSE rest

\* storage.get_history_messages_by_ingestion_status
get_history_messages_by_ingestion_status(h, user_id, k, is_ingested) ==
  FirstN(SelectRows(h, user_id, is_ingested), k)

\* storage.mark_messages_ingested([id])
mark_messages_ingested(h, id) == [h EXCEPT ![id].is_ingested = TRUE]

\* sorted(rows, key=key_fn): a stable sort
RECURSIVE SortedByKey(_, _)
SortedByKey(rows, rank) ==
  IF rank > Len(IsoTexts) THEN <<>>
  ELSE SelectSeq(rows, LAMBDA r : KeyRank(key_fn(r)) = rank) \o SortedByKey(rows, rank + 1)

\* [list(group) for _, group in groupby(rows, key_fn)]: the runs of equal keys
RECURSIVE GroupBy(_)
GroupBy(rows) ==
  IF rows = <<>> THEN <<>>
  ELSE LET rest == GroupBy(Tail(rows))
       IN  IF rest # <<>> /\ key_fn(Head(rest)[1]) = key_fn(Head(rows))
           THEN <<(<<Head(rows)>> \o Head(rest))>> \o Tail(rest)
           ELSE <<(<<Head(rows)>>)>> \o rest

_get_isolation_grouped_memories_unsorted(h, user_id) ==
  GroupBy(get_history_messages_by_ingestion_status(h, user_id, HistoryBatch, FALSE))

_get_isolation_grouped_memories_any(h, user_id) ==
  GroupBy(SortedByKey(
    get_history_messages_by_ingestion_status(h, user_id, HistoryBatch, FALSE)
      \o get_history_messages_by_ingestion_status(h, user_id, HistoryBatch, TRUE), 1))

_get_isolation_grouped_memories(h, user_id) ==
  GroupBy(SortedByKey(
    get_history_messages_by_ingestion_status(h, user_id, HistoryBatch, FALSE), 1))

\* what _update_user_profile_think makes of the LLM call:
\*   "error"    generate_response raises ExternalServiceAPIError, ValueError or
\*              RuntimeError
\*   "think"    a response with <think>..</think> and text after it
\*   "unparsed" a response no JSON object is found in
\*   "commands" a response parsed into so many valid add or delete commands
LLMOutcomes ==
  {[kind |-> "error", commands |-> 0], [kind |-> "think", commands |-> 0],
   [kind |-> "unparsed", commands |-> 0]}
    \cup {[kind |-> "commands", commands |-> c] : c \in 0..MaxCommands}

NoApm == [pc |-> "idle", user_id |-> "None", id |-> 0]
NewMsg == [updates |-> 0, open |-> FALSE, llm_failed |-> FALSE]

IngInit ==
  /\ history = <<>>
  /\ _dirty_users = ProfileUpdateTrackerManager(PROFILE_UPDATE_MESSAGE_LIMIT,
                                                PROFILE_UPDATE_TIME_LIMIT_SEC)
  /\ ing_now = 0
  /\ _is_shutting_down = FALSE
  /\ w_pc = "poll"
  /\ ut = [u \in Users |-> "none"]
  /\ gt = <<>>
  /\ apm = NoApm
  /\ g_msg = <<>>
  /\ cleanup_pc = "none"

\* a call to the storage, the embedder or the language model returns or raises
Outcomes == {"ok", "raise"}

\* the users who send messages
Senders == {"u1"}

\* the clock is read only by mark_update and by should_update of a marked
\* tracker: it is advanced, by the time limit, while a marked tracker is not due
IngTick ==
  /\ ing_now + PROFILE_UPDATE_TIME_LIMIT_SEC <= MaxIngTicks * PROFILE_UPDATE_TIME_LIMIT_SEC
  /\ \E u \in DOMAIN _dirty_users._trackers :
        /\ _dirty_users._trackers[u]._message_count > 0
        /\ ~should_update(_dirty_users._trackers[u], ing_now)
  /\ ing_now' = ing_now + PROFILE_UPDATE_TIME_LIMIT_SEC
  /\ UNCHANGED <<history, _dirty_users, _is_shutting_down, w_pc, ut, gt, apm, g_msg, cleanup_pc, notIng>>

\* add_persona_message up to the return of storage.add_history
APMAddHistory(user_id, isolations, outcome) ==
  /\ apm.pc = "idle"
  /\ Len(history) < MaxMessages
  /\ IF outcome = "ok"
     THEN /\ history' = add_history(history, user_id, isolations)
          /\ g_msg' = Append(g_msg, NewMsg)
          /\ apm' = [pc |-> "mark", user_id |-> user_id, id |-> Len(history')]
     ELSE UNCHANGED <<history, g_msg, apm>>
  /\ UNCHANGED <<_dirty_users, ing_now, _is_shutting_down, w_pc, ut, gt, cleanup_pc, notIng>>

\* add_persona_message: await self._dirty_users.mark_update(user_id)
APMMark ==
  /\ apm.pc = "mark"
  /\ _dirty_users' = Manager_mark_update(_dirty_users, apm.user_id, ing_now)
  /\ apm' = NoApm
  /\ UNCHANGED <<history, ing_now, _is_shutting_down, w_pc, ut, gt, g_msg, cleanup_pc, notIng>>

\* cleanup: self._is_shutting_down = True, then the worker task is awaited
CleanupCall ==
  /\ cleanup_pc = "none"
  /\ _is_shutting_down' = TRUE
  /\ cleanup_pc' = "await"
  /\ UNCHANGED <<history, _dirty_users, ing_now, w_pc, ut, gt, apm, g_msg, notIng>>

\* cleanup: await self._ingestion_task returns when the worker has left its
\* loop, and storage.cleanup() is called; it raises the exception of the worker
\* when the worker ended with one, and storage.cleanup() is not reached
await_ingestion_task(pc) == IF pc = "exited" THEN "released" ELSE "raised"

CleanupJoin ==
  /\ cleanup_pc = "await"
  /\ w_pc \in {"exited", "crashed"}
  /\ cleanup_pc' = await_ingestion_task(w_pc)
  /\ UNCHANGED <<history, _dirty_users, ing_now, _is_shutting_down, w_pc, ut, gt, apm,
                 g_msg, notIng>>

\* _background_ingestion_task: the loop test, get_users_to_update and the branch
WorkerPoll ==
  /\ w_pc = "poll"
  /\ IF _is_shutting_down
     THEN /\ w_pc' = "exited"
          /\ UNCHANGED <<_dirty_users, ut>>
     ELSE LET r == get_users_to_update(_dirty_users, ing_now)
          IN  /\ _dirty_users' = r[1]
              /\ IF Len(r[2]) = 0
                 THEN w_pc' = "sleep" /\ UNCHANGED ut
                 ELSE /\ w_pc' = "gather"
                      /\ ut' = [u \in Users |-> IF u \in Range(r[2]) THEN "load" ELSE "none"]
  /\ UNCHANGED <<history, ing_now, _is_shutting_down, gt, apm, g_msg, cleanup_pc, notIng>>

\* asyncio.sleep(PROFILE_UPDATE_INTERVAL_SEC) returns
WorkerWake ==
  /\ w_pc = "sleep"
  /\ w_pc' = "poll"
  /\ UNCHANGED <<history, _dirty_users, ing_now, _is_shutting_down, ut, gt, apm, g_msg, cleanup_pc, notIng>>

\* an exception leaves a task of the gather: the gather of the user's task and
\* the gather of the worker raise in turn, and the worker task ends with it
Crashed(pc) == IF pc = "gather" THEN "crashed" ELSE pc

\* _process_uningested_memories up to the start of its process_messages tasks
UserLoad(u, outcome) ==
  /\ ut[u] = "load"
  /\ IF outcome = "ok"
     THEN LET groups == _get_isolation_grouped_memories(history, u)
              new == [id \in {<<u, i>> : i \in 1..Len(groups)} |->
                        [messages |-> [j \in 1..Len(groups[id[2]]) |-> groups[id[2]][j].id],
                         i |-> 1, pc |-> "start", commands |-> 0,
                         mark_tasks |-> <<>>, marks_left |-> {}]]
          IN  /\ gt' = new @@ gt
              /\ ut' = [ut EXCEPT ![u] = "run"]
              /\ UNCHANGED w_pc
     ELSE /\ ut' = [ut EXCEPT ![u] = "raised"]
          /\ w_pc' = Crashed(w_pc)
          /\ UNCHANGED gt
  /\ UNCHANGED <<history, _dirty_users, ing_now, _is_shutting_down, apm, g_msg, cleanup_pc, notIng>>

Message(g) == g.messages[g.i]
IsLast(g) == g.i = Len(g.messages)

\* _update_user_profile_think has returned: the caller appends the mark task and
\* goes on to the next message, or gathers the mark tasks after the last one
Returned_same_message(g) ==
  LET g1 == [g EXCEPT !.mark_tasks = Append(@, Message(g)), !.commands = 0]
  IN  IF IsLast(g)
      THEN [g1 EXCEPT !.pc = "marks", !.marks_left = Range(g1.mark_tasks)]
      ELSE [g1 EXCEPT !.pc = "start"]

Returned(g) ==
  LET g1 == [g EXCEPT !.mark_tasks = Append(@, Message(g)), !.commands = 0]
  IN  IF IsLast(g)
      THEN [g1 EXCEPT !.pc = "marks", !.marks_left = Range(g1.mark_tasks)]
      ELSE [g1 EXCEPT !.pc = "start", !.i = @ + 1]

\* consolidation after the commands of every message
Applied_every_message(g) == [g EXCEPT !.pc = "consolidate"]

\* the valid commands are applied; consolidation follows if wait_consolidate
Applied(g) == IF IsLast(g) THEN [g EXCEPT !.pc = "consolidate"] ELSE Returned(g)

\* the error of the model goes the way of a parsed response
ModelError_applied(g) == Applied(g)

\* except (ExternalServiceAPIError, ValueError, RuntimeError): return
ModelError(g) == Returned(g)

Raise(id) ==
  /\ gt' = [gt EXCEPT ![id].pc = "raised"]
  /\ ut' = [ut EXCEPT ![id[1]] = "raised"]
  /\ w_pc' = Crashed(w_pc)

\* _update_user_profile_think: get_user_profile, then generate_response is awaited
GroupAsk(id, outcome) ==
  /\ id \in DOMAIN gt
  /\ gt[id].pc = "start"
  /\ g_msg' = [g_msg EXCEPT ![Message(gt[id])].updates = @ + 1,
                            ![Message(gt[id])].open = TRUE,
                            ![Message(gt[id])].llm_failed = FALSE]
  /\ IF outcome = "ok"
     THEN gt' = [gt EXCEPT ![id].pc = "llm"] /\ UNCHANGED <<ut, w_pc>>
     ELSE Raise(id)
  /\ UNCHANGED <<history, _dirty_users, ing_now, _is_shutting_down, apm, cleanup_pc, notIng>>

\* generate_response returns or raises, and the response is parsed
GroupResponse(id, r) ==
  /\ id \in DOMAIN gt
  /\ gt[id].pc = "llm"
  /\ CASE r.kind = "error" ->
            /\ gt' = [gt EXCEPT ![id] = ModelError(@)]
            /\ g_msg' = [g_msg EXCEPT ![Message(gt[id])].open = FALSE,
                                      ![Message(gt[id])].llm_failed = TRUE]
            /\ UNCHANGED <<ut, w_pc>>
       [] r.kind = "think" ->
            /\ Raise(id)
            /\ UNCHANGED g_msg
       [] r.kind = "unparsed" ->
            /\ gt' = [gt EXCEPT ![id] = Returned(@)]
            /\ g_msg' = [g_msg EXCEPT ![Message(gt[id])].open = FALSE]
            /\ UNCHANGED <<ut, w_pc>>
       [] r.kind = "commands" /\ r.commands > 0 ->
            /\ gt' = [gt EXCEPT ![id].pc = "apply", ![id].commands = r.commands]
            /\ UNCHANGED <<g_msg, ut, w_pc>>
       [] r.kind = "commands" /\ r.commands = 0 ->
            /\ gt' = [gt EXCEPT ![id] = Applied(@)]
            /\ g_msg' = [g_msg EXCEPT ![Message(gt[id])].open = IsLast(gt[id])]
            /\ UNCHANGED <<ut, w_pc>>
  /\ UNCHANGED <<history, _dirty_users, ing_now, _is_shutting_down, apm, cleanup_pc, notIng>>

\* add_new_profile or delete_user_profile_feature for the next valid command
GroupApply(id, outcome) ==
  /\ id \in DOMAIN gt
  /\ gt[id].pc = "apply"
  /\ IF outcome = "ok"
     THEN LET g1 == [gt[id] EXCEPT !.commands = @ - 1]
          IN  /\ gt' = [gt EXCEPT ![id] = IF g1.commands = 0 THEN Applied(g1) ELSE g1]
              /\ g_msg' = [g_msg EXCEPT ![Message(gt[id])].open =
                                          g1.commands > 0 \/ IsLast(gt[id])]
              /\ UNCHANGED <<ut, w_pc>>
     ELSE Raise(id) /\ UNCHANGED g_msg
  /\ UNCHANGED <<history, _dirty_users, ing_now, _is_shutting_down, apm, cleanup_pc, notIng>>

\* wait_consolidate: get_large_profile_sections and the _deduplicate_profile tasks
GroupConsolidate(id, outcome) ==
  /\ id \in DOMAIN gt
  /\ gt[id].pc = "consolidate"
  /\ IF outcome = "ok"
     THEN /\ gt' = [gt EXCEPT ![id] = Returned(@)]
          /\ g_msg' = [g_msg EXCEPT ![Message(gt[id])].open = FALSE]
          /\ UNCHANGED <<ut, w_pc>>
     ELSE Raise(id) /\ UNCHANGED g_msg
  /\ UNCHANGED <<history, _dirty_users, ing_now, _is_shutting_down, apm, cleanup_pc, notIng>>

\* one of the gathered mark_messages_ingested([id]) calls
GroupMark(id, m, outcome) ==
  /\ id \in DOMAIN gt
  /\ m \in gt[id].marks_left
  /\ IF outcome = "ok"
     THEN /\ history' = mark_messages_ingested(history, m)
          /\ gt' = [gt EXCEPT ![id].marks_left = @ \ {m},
                              ![id].pc = IF @ = "marks" /\ gt[id].marks_left = {m}
                                         THEN "done" ELSE @]
          /\ UNCHANGED <<ut, w_pc>>
     ELSE /\ gt' = [gt EXCEPT ![id].marks_left = @ \ {m}, ![id].pc = "raised"]
          /\ ut' = [ut EXCEPT ![id[1]] = "raised"]
          /\ w_pc' = Crashed(w_pc)
          /\ UNCHANGED history
  /\ UNCHANGED <<_dirty_users, ing_now, _is_shutting_down, apm, g_msg, cleanup_pc, notIng>>

\* both gathers return: every process_messages task of every dirty user is done
WorkerGathered ==
  /\ w_pc = "gather"
  /\ \A u \in Users : ut[u] \in {"none", "run"}
  /\ \A id \in DOMAIN gt : gt[id].pc = "done"
  /\ w_pc' = "poll"
  /\ ut' = [u \in Users |-> "none"]
  /\ gt' = <<>>
  /\ UNCHANGED <<history, _dirty_users, ing_now, _is_shutting_down, apm, g_msg, cleanup_pc, notIng>>

IngNext ==
  \/ IngTick
  \/ \E u \in Senders, iso \in IsoSet, o \in Outcomes : APMAddHistory(u, iso, o)
  \/ APMMark
  \/ CleanupCall
  \/ CleanupJoin
  \/ WorkerPoll
  \/ WorkerWake
  \/ \E u \in Users, o \in Outcomes : UserLoad(u, o)
  \/ \E id \in DOMAIN gt, o \in Outcomes : GroupAsk(id, o)
  \/ \E id \in DOMAIN gt, r \in LLMOutcomes : GroupResponse(id, r)
  \/ \E id \in DOMAIN gt, o \in Outcomes : GroupApply(id, o)
  \/ \E id \in DOMAIN gt, o \in Outcomes : GroupConsolidate(id, o)
  \/ \E id \in DOMAIN gt, m \in 1..Len(history), o \in Outcomes : GroupMark(id, m, o)
  \/ WorkerGathered

-----------------------------------------------------------------------------
(***************************************************************************)
(* The profile operations of ProfileMemory: get_user_profile through the   *)
(* LRU cache, and the operations that write the profile.  Several calls    *)
(* are in flight at once; each runs from one await to the next in one      *)
(* step, and a call to the storage or the embedder takes effect and        *)
(* resumes its caller in one step.  The profile table of the storage is a  *)
(* set of rows; the isolation filter is the one the storage contract       *)
(* states.                                                                 *)
(***************************************************************************)
MaxCacheSize == 2
MaxCalls == 2
MaxFeatures == 2

ProfileUsers == {"u1"}
Features == {"likes"}

\* an isolations dict: its items in insertion order; the last two are the same
\* map, built in two orders
Isolations ==
  {<<>>, <<(<<"g", "G">>), (<<"t", "T">>)>>, <<(<<"t", "T">>), (<<"g", "G">>)>>}

\* json.dumps(isolations): the items in the order of the dict, keys not sorted
RECURSIVE JsonItems(_)
JsonItems(d) ==
  IF d = <<>> THEN ""
  ELSE "\"" \o d[1][1] \o "\": \"" \o d[1][2] \o "\""
         \o (IF Len(d) > 1 THEN ", " ELSE "") \o JsonItems(Tail(d))
json_dumps(d) == "{" \o JsonItems(d) \o "}"

\* the cache key of a profile: the tuple (user_id, json.dumps(isolations))
CacheKey(user_id, isolations) == <<user_id, json_dumps(isolations)>>
\* the key _deduplicate_profile erases: the bare user_id
UserKey(user_id) == <<user_id>>

\* isolation filter of the storage: for every key of the query the stored
\* isolations have the same value
Matches(stored, query) ==
  \A i \in 1..Len(query) : \E j \in 1..Len(stored) : stored[j] = query[i]

Rows(p, user_id, isolations) ==
  {r \in p : r.user_id = user_id /\ Matches(r.isolations, isolations)}

\* storage.get_profile: the entries of the user under the isolation
get_profile(p, user_id, isolations) == {r.id : r \in Rows(p, user_id, isolations)}

\* storage.add_profile_feature: inserts, or no-ops on an equal entry
add_profile_feature(p, pid, user_id, feature, isolations) ==
  IF \E r \in p : /\ r.user_id = user_id /\ r.feature = feature
                  /\ Range(r.isolations) = Range(isolations)
  THEN p
  ELSE p \cup {[id |-> pid, user_id |-> user_id, feature |-> feature,
                isolations |-> isolations]}

\* storage.delete_profile
delete_profile(p, user_id, isolations) == p \ Rows(p, user_id, isolations)

\* storage.delete_profile_feature, value absent
delete_profile_feature(p, user_id, feature, isolations) ==
  p \ {r \in Rows(p, user_id, isolations) : r.feature = feature}

\* storage.delete_profile_feature_by_id
delete_profile_feature_by_id(p, pid) == {r \in p : r.id # pid}

Free == [op |-> "none"]
NoDone == [op |-> "none"]
NoRet == [op |-> "none"]
FreeSlot(s) == calls[s] = Free /\ \A t \in 1..(s - 1) : calls[t] # Free

FacInit ==
  /\ _profile_cache = LRUCache(MaxCacheSize)
  /\ profile = {}
  /\ next_pid = 1
  /\ calls = [s \in 1..MaxCalls |-> Free]
  /\ f_done = NoDone
  /\ f_ret = NoRet

\* get_user_profile up to its return on a hit, or to the await of get_profile
GetUserProfile(s, user_id, isolations) ==
  LET key == CacheKey(user_id, isolations) IN
  /\ FreeSlot(s)
  /\ _profile_cache' = LRUCache_get(_profile_cache, key)
  /\ IF key \in DOMAIN _profile_cache.cache
     THEN /\ f_ret' = [op |-> "get", user_id |-> user_id, isolations |-> isolations,
                       profile |-> LRUCache_get_value(_profile_cache, key)]
          /\ UNCHANGED calls
     ELSE /\ calls' = [calls EXCEPT ![s] =
                         [op |-> "get", user_id |-> user_id, isolations |-> isolations]]
          /\ f_ret' = NoRet
  /\ f_done' = NoDone
  /\ UNCHANGED <<profile, next_pid, notFac>>

\* get_user_profile: get_profile returns, the profile is cached and returned
GetUserProfileLoaded(s) ==
  LET c == calls[s]
      p == get_profile(profile, c.user_id, c.isolations) IN
  /\ c.op = "get"
  /\ _profile_cache' = LRUCache_put(_profile_cache, CacheKey(c.user_id, c.isolations), p)
  /\ f_ret' = [op |-> "get", user_id |-> c.user_id, isolations |-> c.isolations,
               profile |-> p]
  /\ calls' = [calls EXCEPT ![s] = Free]
  /\ f_done' = NoDone
  /\ UNCHANGED <<profile, next_pid, notFac>>

\* add_new_profile: the cache entry is erased, ingest_embed is awaited
AddNewProfile(s, user_id, feature, isolations) ==
  /\ FreeSlot(s)
  /\ next_pid + Cardinality({t \in 1..MaxCalls : calls[t].op \in {"add", "add_store"}})
       <= MaxFeatures
  /\ _profile_cache' = LRUCache_erase(_profile_cache, CacheKey(user_id, isolations))
  /\ calls' = [calls EXCEPT ![s] = [op |-> "add", user_id |-> user_id,
                                    feature |-> feature, isolations |-> isolations]]
  /\ f_done' = NoDone /\ f_ret' = NoRet
  /\ UNCHANGED <<profile, next_pid, notFac>>

\* add_new_profile: ingest_embed returns, add_profile_feature is awaited
AddNewProfileEmbedded(s) ==
  /\ calls[s].op = "add"
  /\ calls' = [calls EXCEPT ![s].op = "add_store"]
  /\ f_done' = NoDone /\ f_ret' = NoRet
  /\ UNCHANGED <<_profile_cache, profile, next_pid, notFac>>

\* add_new_profile: add_profile_feature returns, and so does the call
AddNewProfileStored(s) ==
  LET c == calls[s] IN
  /\ c.op = "add_store"
  /\ profile' = add_profile_feature(profile, next_pid, c.user_id, c.feature, c.isolations)
  /\ next_pid' = next_pid + 1
  /\ calls' = [calls EXCEPT ![s] = Free]
  /\ f_done' = [op |-> "add_new_profile", user_id |-> c.user_id,
                isolations |-> c.isolations]
  /\ f_ret' = NoRet
  /\ UNCHANGED <<_profile_cache, notFac>>

\* delete_user_profile: the cache entry is erased, delete_profile is awaited
DeleteUserProfile(s, user_id, isolations) ==
  /\ FreeSlot(s)
  /\ _profile_cache' = LRUCache_erase(_profile_cache, CacheKey(user_id, isolations))
  /\ calls' = [calls EXCEPT ![s] = [op |-> "delete_profile", user_id |-> user_id,
                                    isolations |-> isolations]]
  /\ f_done' = NoDone /\ f_ret' = NoRet
  /\ UNCHANGED <<profile, next_pid, notFac>>

DeleteUserProfileDone(s) ==
  LET c == calls[s] IN
  /\ c.op = "delete_profile"
  /\ profile' = delete_profile(profile, c.user_id, c.isolations)
  /\ calls' = [calls EXCEPT ![s] = Free]
  /\ f_done' = [op |-> "delete_user_profile", user_id |-> c.user_id,
                isolations |-> c.isolations]
  /\ f_ret' = NoRet
  /\ UNCHANGED <<_profile_cache, next_pid, notFac>>

\* delete_user_profile_feature: the cache entry is erased, delete_profile_feature
\* is awaited
DeleteUserProfileFeature(s, user_id, feature, isolations) ==
  /\ FreeSlot(s)
  /\ _profile_cache' = LRUCache_erase(_profile_cache, CacheKey(user_id, isolations))
  /\ calls' = [calls EXCEPT ![s] = [op |-> "delete_feature", user_id |-> user_id,
                                    feature |-> feature, isolations |-> isolations]]
  /\ f_done' = NoDone /\ f_ret' = NoRet
  /\ UNCHANGED <<profile, next_pid, notFac>>

DeleteUserProfileFeatureDone(s) ==
  LET c == calls[s] IN
  /\ c.op = "delete_feature"
  /\ profile' = delete_profile_feature(profile, c.user_id, c.feature, c.isolations)
  /\ calls' = [calls EXCEPT ![s] = Free]
  /\ f_done' = [op |-> "delete_user_profile_feature", user_id |-> c.user_id,
                isolations |-> c.isolations]
  /\ f_ret' = NoRet
  /\ UNCHANGED <<_profile_cache, next_pid, notFac>>

\* _deduplicate_profile(user_id, section), for a section that
\* get_large_profile_sections returned under isolations and one of its memories
\* that the LLM does not keep: erase(user_id), then delete_profile_feature_by_id
\* is awaited
DeduplicateDelete(s, user_id, isolations, pid) ==
  /\ FreeSlot(s)
  /\ pid \in get_profile(profile, user_id, isolations)
  /\ _profile_cache' = LRUCache_erase(_profile_cache, UserKey(user_id))
  /\ calls' = [calls EXCEPT ![s] = [op |-> "deduplicate", user_id |-> user_id,
                                    isolations |-> isolations, pid |-> pid]]
  /\ f_done' = NoDone /\ f_ret' = NoRet
  /\ UNCHANGED <<profile, next_pid, notFac>>

DeduplicateDeleted(s) ==
  LET c == calls[s] IN
  /\ c.op = "deduplicate"
  /\ profile' = delete_profile_feature_by_id(profile, c.pid)
  /\ calls' = [calls EXCEPT ![s] = Free]
  /\ f_done' = [op |-> "delete_profile_feature_by_id", user_id |-> c.user_id,
                isolations |-> c.isolations]
  /\ f_ret' = NoRet
  /\ UNCHANGED <<_profile_cache, next_pid, notFac>>

FacNext ==
  \/ \E s \in 1..MaxCalls, u \in ProfileUsers, i \in Isolations : GetUserProfile(s, u, i)
  \/ \E s \in 1..MaxCalls : GetUserProfileLoaded(s)
  \/ \E s \in 1..MaxCalls, u \in ProfileUsers, f \in Features, i \in Isolations :
        AddNewProfile(s, u, f, i)
  \/ \E s \in 1..MaxCalls : AddNewProfileEmbedded(s)
  \/ \E s \in 1..MaxCalls : AddNewProfileStored(s)
  \/ \E s \in 1..MaxCalls, u \in ProfileUsers, i \in Isolations : DeleteUserProfile(s, u, i)
  \/ \E s \in 1..MaxCalls : DeleteUserProfileDone(s)
  \/ \E s \in 1..MaxCalls, u \in ProfileUsers, f \in Features, i \in Isolations :
        DeleteUserProfileFeature(s, u, f, i)
  \/ \E s \in 1..MaxCalls : DeleteUserProfileFeatureDone(s)
  \/ \E s \in 1..MaxCalls, u \in ProfileUsers, i \in Isolations, pid \in 1..MaxFeatures :
        DeduplicateDelete(s, u, i, pid)
  \/ \E s \in 1..MaxCalls : DeduplicateDeleted(s)

\* delete_all: the cache is replaced by a new LRUCache, storage.delete_all is
\* awaited
DeleteAll(s) ==
  /\ FreeSlot(s)
  /\ _profile_cache' = LRUCache(MaxCacheSize)
  /\ calls' = [calls EXCEPT ![s] = [op |-> "delete_all"]]
  /\ f_done' = NoDone /\ f_ret' = NoRet
  /\ UNCHANGED <<profile, next_pid, notFac>>

\* storage.delete_all returns, and so does the call
DeleteAllDone(s) ==
  /\ calls[s].op = "delete_all"
  /\ profile' = {}
  /\ calls' = [calls EXCEPT ![s] = Free]
  /\ f_done' = [op |-> "delete_all"]
  /\ f_ret' = NoRet
  /\ UNCHANGED <<_profile_cache, next_pid, notFac>>

DeleteAllNext ==
  \/ FacNext
  \/ \E s \in 1..MaxCalls : DeleteAll(s)
  \/ \E s \in 1..MaxCalls : DeleteAllDone(s)

-----------------------------------------------------------------------------
FacIdle == FacInit

IsoIdle ==
  /\ ci_associations = <<>>
  /\ ci_pc = "input"
  /\ ci_out = <<>>

UpdIdle ==
  /\ up_profile = {}
  /\ up_before = {}
  /\ up_isolations = <<>>
  /\ up_response = [form |-> "none", commands |-> <<>>]
  /\ up_pc = "done"
  /\ up_i = 0
  /\ up_record = [id |-> 1, user_id |-> "u1"]
  /\ up_calls = <<>>

DedupIdle ==
  /\ dd_history = <<>>
  /\ dd_profile = {}
  /\ memories = <<>>
  /\ updated_profile_entries = [kind |-> "none"]
  /\ dd_pc = "done"
  /\ dd_i = 0
  /\ consolidate_memory = [value |-> 0, citations |-> <<>>]
  /\ dd_associations = <<>>
  /\ dd_added = <<>>

-----------------------------------------------------------------------------
(***************************************************************************)
(* _deduplicate_profile: the isolations of a consolidated memory, derived  *)
(* from the associations that get_all_citations_for_ids returns.  An       *)
(* association is a pair (history id, isolations); an isolations dict is   *)
(* the sequence of its items; a value is a pair of its JSON type and its   *)
(* text.                                                                   *)
(***************************************************************************)
MaxCited == 3

IsoKeys == <<"g", "s">>
IsoValues == {<<"str", "S1">>, <<"str", "S2">>, <<"bool", "1">>, <<"int", "1">>}

KeyIndex(k) == CHOOSE i \in 1..Len(IsoKeys) : IsoKeys[i] = k

\* the isolations a history row can carry, keys in the order of the stored JSON
CitedIsolations ==
  {d \in UNION {[1..n -> Range(IsoKeys) \X IsoValues] : n \in 0..Len(IsoKeys)} :
     \A i \in 1..(Len(d) - 1) : KeyIndex(d[i][1]) < KeyIndex(d[i + 1][1])}

\* Python's == on two values: True == 1, a str equals only the same str
PyEq(a, b) == IF a[1] # "str" /\ b[1] # "str" THEN a[2] = b[2] ELSE a = b

\* dict.get(k): the value, or None
DictGet(d, k) ==
  IF \E i \in 1..Len(d) : d[i][1] = k
  THEN (CHOOSE i \in 1..Len(d) : d[i][1] = k)
  ELSE 0

\* one pass of the inner loop body: st is <<new_isolations, bad>>
IsoVisit(st, item) ==
  LET old_val == DictGet(st[1], item[1])
  IN  IF old_val = 0 THEN <<Append(st[1], item), st[2]>>
      ELSE IF ~PyEq(st[1][old_val][2], item[2]) THEN <<st[1], st[2] \cup {item[1]}>>
      ELSE st

RECURSIVE IsoItems(_, _)
IsoItems(st, items) ==
  IF items = <<>> THEN st ELSE IsoItems(IsoVisit(st, Head(items)), Tail(items))

RECURSIVE IsoRows(_, _)
IsoRows(st, associations) ==
  IF associations = <<>> THEN st
  ELSE IsoRows(IsoItems(st, Head(associations)[2]), Tail(associations))

\* new_isolations after the loops and after the keys in bad are deleted
new_isolations(associations) ==
  LET st == IsoRows(<< <<>>, {} >>, associations)
  IN  SelectSeq(st[1], LAMBDA item : item[1] \notin st[2])

\* new_citations = [i[0] for i in associations]
new_citations_listed(associations, listed) == listed

new_citations(associations, listed) == [i \in 1..Len(associations) |-> associations[i][1]]

IsoInit ==
  /\ \E n \in 0..MaxCited : \E ds \in [1..n -> CitedIsolations] :
        ci_associations = [i \in 1..n |-> <<i, ds[i]>>]
  /\ ci_pc = "input"
  /\ ci_out = <<>>

IsoDerive ==
  /\ ci_pc = "input"
  /\ ci_pc' = "done"
  /\ ci_out' = new_isolations(ci_associations)
  /\ UNCHANGED <<ci_associations, notIso>>

IsoNext == IsoDerive

(***************************************************************************)
(* _deduplicate_profile: one call, for one section (memories) of one user. *)
(* The call asks the model, reads the shape of its answer, deletes the     *)
(* entries the answer does not keep and then adds the consolidated         *)
(* memories.  The storage is the one the contract states: an entry is      *)
(* soft-deleted, its citations stay recorded, and                          *)
(* get_all_citations_for_ids joins them with the history table.  The       *)
(* profile cache, which the call erases, is the one of the section above.  *)
(***************************************************************************)
MaxSection == 2
MaxHistory == 2

\* the isolations of a history row
HistoryIsolations ==
  {<<(<<"g", <<"str", "S1">>>>)>>, <<(<<"g", <<"str", "S2">>>>)>>}

\* the elements of a set of integers, ascending
SortedSeq(S) ==
  CHOOSE s \in [1..Cardinality(S) -> S] :
    \A i, j \in 1..Cardinality(S) : i < j => s[i] < s[j]

\* storage.get_all_citations_for_ids: the history rows cited by the entries
\* pids, each with its isolations
get_all_citations_for_ids(p, h, pids) ==
  LET cited == {c \in DOMAIN h : \E r \in p : r.id \in Range(pids) /\ c \in Range(r.citations)}
  IN  [i \in 1..Cardinality(cited) |-> <<SortedSeq(cited)[i], h[SortedSeq(cited)[i]]>>]

\* storage.add_profile_feature with citations: inserts, or no-ops on an
\* equal live entry
add_profile_feature_cited(p, pid, value, isolations, citations) ==
  IF \E r \in p : ~r.deleted /\ r.value = value /\ Range(r.isolations) = Range(isolations)
  THEN p
  ELSE p \cup {[id |-> pid, value |-> value, isolations |-> isolations,
                citations |-> citations, deleted |-> FALSE]}

\* storage.delete_profile_feature_by_id: a soft delete
soft_delete_profile_feature_by_id(p, pid) ==
  {IF r.id = pid THEN [r EXCEPT !.deleted = TRUE] ELSE r : r \in p}

\* What the model can answer for a section of n entries: an error, a text
\* that does not parse, a JSON value that is no dict, or a dict.  In a dict
\* each of the two keys is missing, not a list, or a list; keep_memories
\* holds its int items; consolidate_memories counts the memories that pass
\* ConsolidateMemory(**memory), none or one (the others are skipped, and
\* the content of the one is read when the loop reaches it).
Shapes == {"missing", "notlist", "list"}
Responses(n) ==
  {[kind |-> k] : k \in {"error", "unparsed", "notdict"}} \cup
  {r \in [kind : {"dict"}, consolidate : Shapes, keep : Shapes,
          consolidate_memories : {0, 1}, keep_memories : SUBSET (1..n)] :
     /\ r.consolidate # "list" => r.consolidate_memories = 0
     /\ r.keep # "list" => r.keep_memories = {}}

\* a consolidated memory: value 0 is a new text, value 1 the text of entry 1;
\* metadata.citations lists ids of profile entries, existing or not
ConsolidateMemory(n) ==
  [value : {0, 1}, citations : {SortedSeq(S) : S \in SUBSET (1..(n + 1))}]

\* consolidate_memories after the checks of its shape
consolidate_memories(r) ==
  IF r.consolidate = "list" THEN r.consolidate_memories ELSE 0

\* keep_all_memories after the checks: a missing consolidate_memories key
\* does not set it
keep_all_memories(r) == r.keep # "list" \/ r.consolidate = "notlist"

\* the entries the deletion loop deletes, in the order of memories
ToDelete_listed(r, mems) ==
  IF keep_all_memories(r) THEN <<>>
  ELSE SelectSeq(mems, LAMBDA pid : pid \in r.keep_memories)

ToDelete(r, mems) ==
  IF keep_all_memories(r) THEN <<>>
  ELSE SelectSeq(mems, LAMBDA pid : pid \notin r.keep_memories)

NoResponse == [kind |-> "none"]
NoMemory == [value |-> 0, citations |-> <<>>]

\* where the call goes on after its i-th deletion
AfterDelete(r, mems, i) ==
  IF i < Len(ToDelete(r, mems)) THEN "delete"
  ELSE IF consolidate_memories(r) > 0 THEN "consolidate" ELSE "done"

\* an entry of the user that is not in the section
OtherEntry ==
  [id |-> 0, value |-> -1, isolations |-> <<>>, citations |-> <<>>, deleted |-> FALSE]

DedupInit ==
  /\ \E n \in 1..MaxSection :
       \E iso \in [1..MaxHistory -> HistoryIsolations] :
         \E cit \in [1..n -> 0..MaxHistory] :
           /\ dd_history = iso
           /\ memories = [i \in 1..n |-> i]
           /\ dd_profile =
                {[id |-> i, value |-> i,
                  isolations |-> IF cit[i] = 0 THEN <<>> ELSE iso[cit[i]],
                  citations |-> IF cit[i] = 0 THEN <<>> ELSE <<cit[i]>>,
                  deleted |-> FALSE] : i \in 1..n}
                \cup {OtherEntry}
  /\ updated_profile_entries = NoResponse
  /\ dd_pc = "ask"
  /\ dd_i = 0
  /\ consolidate_memory = NoMemory
  /\ dd_associations = <<>>
  /\ dd_added = <<>>

\* generate_response returns or raises; the answer is parsed and its shape
\* checked, up to the first call of the storage
DedupAsk(r) ==
  /\ dd_pc = "ask"
  /\ updated_profile_entries' = r
  /\ dd_pc' = IF r.kind # "dict" THEN "done" ELSE AfterDelete(r, memories, 0)
  /\ dd_i' = 1
  /\ UNCHANGED <<dd_history, dd_profile, memories, consolidate_memory,
                 dd_associations, dd_added, notDedup>>

\* one pass of the deletion loop
DedupDelete ==
  /\ dd_pc = "delete"
  /\ dd_profile' = soft_delete_profile_feature_by_id(
                     dd_profile, ToDelete(updated_profile_entries, memories)[dd_i])
  /\ dd_pc' = AfterDelete(updated_profile_entries, memories, dd_i)
  /\ dd_i' = IF dd_pc' = "delete" THEN dd_i + 1 ELSE 1
  /\ UNCHANGED <<dd_history, memories, updated_profile_entries, consolidate_memory,
                 dd_associations, dd_added, notDedup>>

\* consolidation loop: the next valid memory m, and get_all_citations_for_ids
DedupResolve(m) ==
  /\ dd_pc = "consolidate"
  /\ consolidate_memory' = m
  /\ dd_associations' = get_all_citations_for_ids(dd_profile, dd_history, m.citations)
  /\ dd_pc' = "resolved"
  /\ UNCHANGED <<dd_history, dd_profile, memories, updated_profile_entries, dd_i,
                 dd_added, notDedup>>

\* consolidation loop: new_citations, new_isolations and add_new_profile
DedupAdd ==
  /\ dd_pc = "resolved"
  /\ LET pid == Cardinality(dd_profile) + 1
         p == add_profile_feature_cited(
                dd_profile, pid, consolidate_memory.value,
                new_isolations(dd_associations),
                new_citations(dd_associations, consolidate_memory.citations))
     IN  /\ dd_profile' = p
         /\ dd_added' = IF p = dd_profile THEN dd_added
                        ELSE Append(dd_added, [id |-> pid,
                                               listed |-> consolidate_memory.citations])
  /\ dd_pc' = IF dd_i < consolidate_memories(updated_profile_entries)
              THEN "consolidate" ELSE "done"
  /\ dd_i' = dd_i + 1
  /\ UNCHANGED <<dd_history, memories, updated_profile_entries, consolidate_memory,
                 dd_associations, notDedup>>

DedupNext ==
  \/ \E r \in Responses(Len(memories)) : DedupAsk(r)
  \/ DedupDelete
  \/ \E m \in ConsolidateMemory(Len(memories)) : DedupResolve(m)
  \/ DedupAdd

(***************************************************************************)
(* _update_user_profile_think: one call, for one message.  The call asks   *)
(* the model, extracts and parses the JSON of its answer, validates the    *)
(* commands and applies the valid ones one after the other.  The storage   *)
(* holds the live profile rows of the user: a row is its (feature, tag),   *)
(* its value and its isolations, unique among the live rows.  The profile  *)
(* cache, which every command erases, is the one of the section above.     *)
(***************************************************************************)
MaxResponseCommands == 2

FeatureTags == {<<"tone", "w">>, <<"tone", "x">>}
ProfileValues == {"formal", "casual"}
MessageIsolations == {<<(<<"g", "G">>)>>, <<(<<"g", "G">>), (<<"t", "T">>)>>}

ProfileRows == [ft : FeatureTags, value : ProfileValues, isolations : MessageIsolations]

\* a value of the response's object that is no JSON object (a string, a list)
NotADict == "not a dict"

\* the commands a response can carry; "update" is no command of the protocol;
\* None stands for a key the command lacks: an add may lack its value, and
\* there are commands without feature, without tag and without command
ResponseCommands ==
  [command : {"add"}, ft : FeatureTags, value : ProfileValues \cup {None}]
    \cup [command : {"delete"}, ft : FeatureTags, value : {None, "casual"}]
    \cup {[command |-> "update", ft |-> <<"tone", "w">>, value |-> None],
          [command |-> "add", ft |-> <<None, "w">>, value |-> "formal"],
          [command |-> "delete", ft |-> <<"tone", None>>, value |-> None],
          [command |-> None, ft |-> <<"tone", "w">>, value |-> "formal"],
          [command |-> NotADict, ft |-> <<None, None>>, value |-> None]}

\* the answer of the model: an error of the service, a text with no JSON in
\* it, a JSON object of commands, or <think>T</think> followed by such an object
UpdateResponses ==
  {[form |-> f, commands |-> <<>>] : f \in {"error", "unparsed"}} \cup
  [form : {"json", "think"},
   commands : UNION {[1..n -> ResponseCommands] : n \in 0..MaxResponseCommands}]

\* `re` is a local of the function, bound by the import in the else branch:
\* with <think> tags and a non-empty body the clean-up reads it unbound
raises_UnboundLocalError(r) == r.form = "think"

\* the checks every command passes before any is applied
IsValid_value_optional(c) ==
  /\ c.command # NotADict
  /\ c.command # None
  /\ c.command \in {"add", "delete"}
  /\ c.ft[1] # None
  /\ c.ft[2] # None

IsValid(c) ==
  /\ c.command # NotADict
  /\ c.command # None
  /\ c.command \in {"add", "delete"}
  /\ c.ft[1] # None
  /\ c.ft[2] # None
  /\ c.command = "add" => c.value # None

valid_commands(r) == SelectSeq(r.commands, IsValid)

\* the command the loop applies at its i-th pass
CommandAt_reversed(cmds, i) == cmds[Len(cmds) + 1 - i]

CommandAt(cmds, i) == cmds[i]

\* storage.add_profile_feature on the live rows: a duplicate add is a no-op
add_profile_row(p, ft, value, isolations) ==
  p \cup {[ft |-> ft, value |-> value, isolations |-> isolations]}

\* storage.delete_profile_feature: the rows of (feature, tag) under the
\* isolation, all of them or those of one value
delete_profile_rows(p, ft, value, isolations) ==
  {r \in p : ~(/\ r.ft = ft
               /\ Matches(r.isolations, isolations)
               /\ (value = None \/ r.value = value))}

NoUpdateResponse == [form |-> "none", commands |-> <<>>]

\* the messages the call is made for
MessageIds == {1, 2}

\* citations=[citation_id], with citation_id = record["id"]
citations_none(record) == <<>>

citations(record) == <<record.id>>

\* the arguments add_new_profile passes on to storage.add_profile_feature
AddCall(record, isolations) ==
  [op |-> "add_profile_feature", user_id |-> record.user_id,
   isolations |-> isolations, citations |-> citations(record)]

\* the arguments delete_user_profile_feature passes on to
\* storage.delete_profile_feature
DeleteCall(record, isolations) ==
  [op |-> "delete_profile_feature", user_id |-> record.user_id,
   isolations |-> isolations, citations |-> None]

UpdInit ==
  /\ up_profile \in SUBSET {r \in ProfileRows : r.ft = <<"tone", "w">>}
  /\ up_before = up_profile
  /\ up_isolations \in MessageIsolations
  /\ up_response = NoUpdateResponse
  /\ up_pc = "ask"
  /\ up_i = 0
  /\ up_record \in [id : MessageIds, user_id : Users]
  /\ up_calls = <<>>

\* generate_response returns or raises; the answer is parsed and validated
UpdRespond(r) ==
  /\ up_pc = "ask"
  /\ up_response' = r
  /\ up_pc' = IF r.form \in {"error", "unparsed"} THEN "done"
              ELSE IF raises_UnboundLocalError(r) THEN "raised"
              ELSE IF valid_commands(r) = <<>> THEN "done" ELSE "apply"
  /\ up_i' = 1
  /\ UNCHANGED <<up_profile, up_before, up_isolations, up_record, up_calls, notUpd>>

\* an add command: add_new_profile embeds the value, which can fail, and
\* writes the row under the isolations of the message
UpdAdd(outcome) ==
  /\ up_pc = "apply"
  /\ LET c == CommandAt(valid_commands(up_response), up_i)
     IN  /\ c.command = "add"
         /\ up_profile' = IF outcome = "ok"
                          THEN add_profile_row(up_profile, c.ft, c.value, up_isolations)
                          ELSE up_profile
  /\ up_pc' = IF outcome = "raise" THEN "raised"
              ELSE IF up_i < Len(valid_commands(up_response)) THEN "apply" ELSE "done"
  /\ up_i' = IF outcome = "ok" THEN up_i + 1 ELSE up_i
  /\ up_calls' = IF outcome = "ok"
                 THEN Append(up_calls, AddCall(up_record, up_isolations))
                 ELSE up_calls
  /\ UNCHANGED <<up_before, up_isolations, up_response, up_record, notUpd>>

\* a delete command: delete_user_profile_feature with the value of the
\* command, or None
UpdDelete ==
  /\ up_pc = "apply"
  /\ LET c == CommandAt(valid_commands(up_response), up_i)
     IN  /\ c.command = "delete"
         /\ up_profile' = delete_profile_rows(up_profile, c.ft, c.value, up_isolations)
  /\ up_pc' = IF up_i < Len(valid_commands(up_response)) THEN "apply" ELSE "done"
  /\ up_i' = up_i + 1
  /\ up_calls' = Append(up_calls, DeleteCall(up_record, up_isolations))
  /\ UNCHANGED <<up_before, up_isolations, up_response, up_record, notUpd>>

UpdNext ==
  \/ up_pc = "ask" /\ \E r \in UpdateResponses : UpdRespond(r)
  \/ \E outcome \in Outcomes : UpdAdd(outcome)
  \/ UpdDelete

-----------------------------------------------------------------------------
(***************************************************************************)
(* The JSON candidate of a response that has no <think> tags and matches   *)
(* none of the tag and fence patterns (_update_user_profile_think and      *)
(* _deduplicate_profile carry the same code).  The text is a sequence of   *)
(* "{", "}" and "x", the latter for any character that is no brace.        *)
(***************************************************************************)
MaxText == 6
Chars == {"{", "}", "x"}
Texts == UNION {[1..n -> Chars] : n \in 0..MaxText}

\* the match of [^{}]*(?:\{[^{}]*\}[^{}]*)*\} from position j, inside the
\* opening brace (depth 1) or inside a nested pair (depth 2): the position of
\* the closing brace, or 0 when there is no match
RECURSIVE MatchEnd(_, _, _)
MatchEnd(t, j, depth) ==
  IF j > Len(t) THEN 0
  ELSE IF t[j] = "x" THEN MatchEnd(t, j + 1, depth)
  ELSE IF t[j] = "{" THEN (IF depth = 1 THEN MatchEnd(t, j + 1, 2) ELSE 0)
  ELSE IF depth = 2 THEN MatchEnd(t, j + 1, 1) ELSE j

\* the places the pattern matches at: start and end
Matches_at(t) ==
  {<<i, MatchEnd(t, i + 1, 1)>> : i \in {k \in 1..Len(t) : t[k] = "{" /\ MatchEnd(t, k + 1, 1) > 0}}

\* re.search: the leftmost match, or None
re_search(t) ==
  IF Matches_at(t) = {} THEN <<>>
  ELSE CHOOSE m \in Matches_at(t) : \A o \in Matches_at(t) : m[1] <= o[1]

\* json_match.group(1), or the whole response when there is no match
json_candidate(t) ==
  IF re_search(t) = <<>> THEN t ELSE SubSeq(t, re_search(t)[1], re_search(t)[2])

ExInit ==
  /\ response_text \in Texts
  /\ response_json = <<>>
  /\ ex_pc = "text"

ExIdle ==
  /\ response_text = <<>>
  /\ response_json = <<>>
  /\ ex_pc = "text"

ExSearch ==
  /\ ex_pc = "text"
  /\ response_json' = json_candidate(response_text)
  /\ ex_pc' = "candidate"
  /\ UNCHANGED <<response_text, notEx>>

ExNext == ExSearch

-----------------------------------------------------------------------------
(***************************************************************************)
(* ResourceInitializer.initialize (common/resource_initializer.py).        *)
(* resource_definitions is a dict; what the call reads of a definition is  *)
(* the set of dependency ids its builder reports, so the model starts with *)
(* resource_dependency_graph, in the order of the dict (here the order of  *)
(* the ids: any other order is this one with the ids renamed).             *)
(* A built resource is represented by its id.                              *)
(***************************************************************************)
MaxResources == 3
MaxDependencies == 3
ResourceIds == 1..MaxResources

\* the dependency relations the call is given: <<resource, dependency>>
DependencyGraphs ==
  {E \in SUBSET (ResourceIds \X ResourceIds) : Cardinality(E) <= MaxDependencies}

\* the keys of a dict, in its order
DictKeys(d) ==
  SelectSeq([i \in 1..MaxResources |-> i], LAMBDA r : r \in DOMAIN d)

\* the check of lines 111-118 fails for some dependency
MissingDependency_definitions_only(graph, cache) ==
  \E r \in DOMAIN graph : \E d \in graph[r] : d \notin DOMAIN graph

MissingDependency(graph, cache) ==
  \E r \in DOMAIN graph : \E d \in graph[r] :
     d \notin DOMAIN graph /\ d \notin cache

\* dependency_counts and dependent_resource_ids after the loop of 105-123
CountDependencies(graph) ==
  [r \in DOMAIN graph |-> Cardinality(graph[r] \cap DOMAIN graph)]

Dependents(graph) ==
  [d \in DOMAIN graph |-> {r \in DOMAIN graph : d \in graph[r]}]

\* the deque of lines 125-131
InitialQueue(counts) ==
  SelectSeq(DictKeys(counts), LAMBDA r : counts[r] = 0)

\* the orders a for loop may visit a set in
SetOrders(S) ==
  {s \in [1..Cardinality(S) -> S] : \A i, j \in 1..Cardinality(S) : s[i] = s[j] => i = j}

\* resource_cache | initialized_resources, as the set of its keys
Injections_cache_only(cache, initialized) == cache

Injections(cache, initialized) == cache \cup Range(initialized)

RIInit ==
  /\ \E E \in DependencyGraphs :
       \E D \in SUBSET ResourceIds :
          /\ {e[1] : e \in E} \subseteq D
          /\ resource_dependency_graph = [r \in D |-> {e[2] : e \in {x \in E : x[1] = r}}]
  /\ resource_cache \in SUBSET ResourceIds
  /\ dependency_counts = <<>>
  /\ dependent_resource_ids = <<>>
  /\ ri_queue = <<>>
  /\ ordered_resource_ids = <<>>
  /\ initialized_resources = <<>>
  /\ ri_injections = <<>>
  /\ ri_pc = "call"
  /\ ri_i = 1

RIIdle ==
  /\ resource_dependency_graph = <<>>
  /\ resource_cache = {}
  /\ dependency_counts = <<>>
  /\ dependent_resource_ids = <<>>
  /\ ri_queue = <<>>
  /\ ordered_resource_ids = <<>>
  /\ initialized_resources = <<>>
  /\ ri_injections = <<>>
  /\ ri_pc = "idle"
  /\ ri_i = 1

\* order_resources, lines 96-131: the counts and the first queue, or the
\* ValueError of a dependency that is found nowhere
RICount ==
  /\ ri_pc = "call"
  /\ IF MissingDependency(resource_dependency_graph, resource_cache)
     THEN /\ ri_pc' = "raised"
          /\ UNCHANGED <<dependency_counts, dependent_resource_ids, ri_queue>>
     ELSE /\ ri_pc' = "queue"
          /\ dependency_counts' = CountDependencies(resource_dependency_graph)
          /\ dependent_resource_ids' = Dependents(resource_dependency_graph)
          /\ ri_queue' = InitialQueue(CountDependencies(resource_dependency_graph))
  /\ UNCHANGED <<resource_dependency_graph, resource_cache, ordered_resource_ids,
                 initialized_resources, ri_injections, ri_i, notRI>>

\* one round of `while queue`, lines 133-140; the for loop visits the set of
\* dependents in an order of its own
RIPop ==
  /\ ri_pc = "queue"
  /\ ri_queue # <<>>
  /\ LET resource_id == Head(ri_queue)
         counts == [r \in DOMAIN dependency_counts |->
                      IF r \in dependent_resource_ids[resource_id]
                      THEN dependency_counts[r] - 1 ELSE dependency_counts[r]]
         ready == {r \in dependent_resource_ids[resource_id] : counts[r] = 0}
     IN  /\ ordered_resource_ids' = Append(ordered_resource_ids, resource_id)
         /\ dependency_counts' = counts
         /\ \E visit \in SetOrders(ready) : ri_queue' = Tail(ri_queue) \o visit
  /\ UNCHANGED <<resource_dependency_graph, resource_cache, dependent_resource_ids,
                 initialized_resources, ri_injections, ri_pc, ri_i, notRI>>

\* the queue is empty, lines 142-149: the ValueError of a cycle, or the order
RIOrdered ==
  /\ ri_pc = "queue"
  /\ ri_queue = <<>>
  /\ ri_pc' = IF Len(ordered_resource_ids) # Cardinality(DOMAIN resource_dependency_graph)
              THEN "raised" ELSE "build"
  /\ UNCHANGED <<resource_dependency_graph, resource_cache, dependency_counts,
                 dependent_resource_ids, ri_queue, ordered_resource_ids,
                 initialized_resources, ri_injections, ri_i, notRI>>

\* one round of the loop of lines 150-164
RIBuild ==
  /\ ri_pc = "build"
  /\ ri_i <= Len(ordered_resource_ids)
  /\ LET resource_id == ordered_resource_ids[ri_i]
     IN  IF resource_id \in resource_cache
         THEN UNCHANGED <<initialized_resources, ri_injections>>
         ELSE /\ ri_injections' = Append(ri_injections,
                   [id |-> resource_id,
                    injections |-> Injections(resource_cache, initialized_resources)])
              /\ initialized_resources' = Append(initialized_resources, resource_id)
  /\ ri_i' = ri_i + 1
  /\ UNCHANGED <<resource_dependency_graph, resource_cache, dependency_counts,
                 dependent_resource_ids, ri_queue, ordered_resource_ids, ri_pc, notRI>>

\* return initialized_resources, line 166
RIReturn ==
  /\ ri_pc = "build"
  /\ ri_i > Len(ordered_resource_ids)
  /\ ri_pc' = "returned"
  /\ UNCHANGED <<resource_dependency_graph, resource_cache, dependency_counts,
                 dependent_resource_ids, ri_queue, ordered_resource_ids,
                 initialized_resources, ri_injections, ri_i, notRI>>

RINext ==
  \/ RICount
  \/ RIPop
  \/ RIOrdered
  \/ RIBuild
  \/ RIReturn

-----------------------------------------------------------------------------
(***************************************************************************)
(* ProfileMemory.__init__ and startup.  __init__ ends with the worker task *)
(* created (asyncio.create_task, line 193): IngInit is that state.  The    *)
(* task runs when the coroutine that built the object awaits; the model    *)
(* lets it run from the first await that the program is known to reach,    *)
(* the one inside startup.                                                 *)
(***************************************************************************)
SUInit == startup_pc = "constructed"

SUIdle == startup_pc = "started"

\* startup is called and awaits self._profile_storage.startup()
StartupCall ==
  /\ startup_pc = "constructed"
  /\ startup_pc' = "starting"
  /\ UNCHANGED notSU

\* the storage has acquired its pool and startup returns
StartupDone ==
  /\ startup_pc = "starting"
  /\ startup_pc' = "started"
  /\ UNCHANGED notSU

\* the event loop runs the tasks once the constructing coroutine awaits
StartupLoop ==
  /\ startup_pc # "constructed"
  /\ IngNext

StartupNext ==
  \/ StartupCall
  \/ StartupDone
  \/ StartupLoop

-----------------------------------------------------------------------------
(***************************************************************************)
(* Reranker.rerank (common/reranker/reranker.py) with the score of         *)
(* IdentityReranker, or with the scores of another subclass.               *)
(***************************************************************************)
MaxCandidates == 4
Candidates == {"a", "b", "c"}
OtherScores == {0, 1}

\* IdentityReranker.score: list(map(float, reversed(range(len(candidates)))))
IdentityReranker_score(candidates) ==
  [i \in 1..Len(candidates) |-> Len(candidates) - i]

\* dict(zip(candidates, scores)): a later item replaces an earlier one
score_map(candidates, scores) ==
  [c \in Range(candidates) |->
     scores[CHOOSE i \in 1..Len(candidates) :
              /\ candidates[i] = c
              /\ \A j \in 1..Len(candidates) : candidates[j] = c => j <= i]]

\* sorted(xs, key=..., reverse=True): descending by key, equal keys in their
\* original order
sorted_reverse(xs, key) ==
  LET place(i) == 1 + Cardinality({j \in 1..Len(xs) :
                        \/ key[xs[j]] > key[xs[i]]
                        \/ key[xs[j]] = key[xs[i]] /\ j < i})
  IN  [k \in 1..Len(xs) |-> xs[CHOOSE i \in 1..Len(xs) : place(i) = k]]

rerank(candidates, scores) ==
  sorted_reverse(candidates, score_map(candidates, scores))

RRInit ==
  /\ rr_candidates \in UNION {[1..n -> Candidates] : n \in 0..MaxCandidates}
  /\ rr_scores = <<>>
  /\ rr_out = <<>>
  /\ rr_pc = "call"

RRIdle ==
  /\ rr_candidates = <<>>
  /\ rr_scores = <<>>
  /\ rr_out = <<>>
  /\ rr_pc = "idle"

\* rerank of an IdentityReranker
RerankIdentity ==
  /\ rr_pc = "call"
  /\ rr_scores' = IdentityReranker_score(rr_candidates)
  /\ rr_out' = rerank(rr_candidates, IdentityReranker_score(rr_candidates))
  /\ rr_pc' = "identity"
  /\ UNCHANGED <<rr_candidates, notRR>>

\* rerank of a reranker whose score returns the list scores
RerankOther(scores) ==
  /\ rr_pc = "call"
  /\ rr_scores' = scores
  /\ rr_out' = rerank(rr_candidates, scores)
  /\ rr_pc' = "other"
  /\ UNCHANGED <<rr_candidates, notRR>>

RRNext ==
  \/ RerankIdentity
  \/ \E scores \in [1..Len(rr_candidates) -> OtherScores] : RerankOther(scores)

-----------------------------------------------------------------------------
IngIdle == IngInit

LRUIdle ==
  /\ lru = LRUCache(1)
  /\ lru_capacity = 1
  /\ touched = <<>>
  /\ lru_last = "new"
  /\ lru_ret = None

TrkIdle ==
  /\ now = 0
  /\ tm = ProfileUpdateTrackerManager(1, 1)
  /\ mark_pc = [u \in Users |-> "idle"]
  /\ get_pc = "idle"
  /\ get_todo = <<>>
  /\ get_ret = <<>>
  /\ g_n = [u \in Users |-> 0]
  /\ g_first = [u \in Users |-> NoTime]
  /\ g_call = NoCall

LRUNext ==
  \/ \E key \in Keys : LRUGet(key)
  \/ \E key \in Keys, value \in Values : LRUPut(key, value)

RFIdle ==
  /\ rf_arr = <<>>
  /\ rf_max_range = 0
  /\ rf_max_std = 0
  /\ rf_pc = "input"
  /\ rf_out = <<>>

InitLRU == LRUInit /\ TrkIdle /\ RFIdle /\ IngIdle /\ FacIdle /\ IsoIdle /\ DedupIdle /\ UpdIdle /\ ExIdle /\ RIIdle /\ SUIdle /\ RRIdle
SpecLRU == InitLRU /\ [][LRUNext]_vars

LRUEraseNext ==
  \/ \E key \in Keys : LRUGet(key)
  \/ \E key \in Keys, value \in Values : LRUPut(key, value)
  \/ \E key \in Keys : LRUErase(key)

SpecLRUErase == InitLRU /\ [][LRUEraseNext]_vars

InitTracker == TrkInit /\ LRUIdle /\ RFIdle /\ IngIdle /\ FacIdle /\ IsoIdle /\ DedupIdle /\ UpdIdle /\ ExIdle /\ RIIdle /\ SUIdle /\ RRIdle
SpecTracker == InitTracker /\ [][TrkNext]_vars

\* The tracker with time that advances and a worker that keeps polling.  The
\* clock of the model stops at MaxNow, so a first mark is taken only while its
\* time limit ends before MaxNow; the body of mark_update runs without an await
\* once it holds the lock, so no time passes inside it.
LiveTick(d) ==
  /\ \A u \in Users : mark_pc[u] # "locked"
  /\ Tick(d)

LiveMarkCall(u) ==
  /\ now + tm._time_limit_sec <= MaxNow
  /\ MarkCall(u)

LiveMarkAcquire(u) ==
  /\ now + tm._time_limit_sec <= MaxNow
  /\ MarkAcquire(u)

TrkLiveNext ==
  \/ \E d \in TickSteps : LiveTick(d)
  \/ \E u \in Users : LiveMarkCall(u)
  \/ \E u \in Users : LiveMarkAcquire(u)
  \/ \E u \in Users : MarkBody(u)
  \/ GetAcquire
  \/ GetVisit
  \/ GetReturn

\* Time passes whatever the tasks do, and asyncio.Lock wakes its waiters in
\* turn, so a poll that keeps asking for the lock gets it.
SpecTrackerLive ==
  /\ InitTracker
  /\ [][TrkLiveNext]_vars
  /\ SF_vars(\E d \in TickSteps : LiveTick(d))
  /\ WF_vars(\E u \in Users : MarkBody(u))
  /\ SF_vars(GetAcquire)
  /\ WF_vars(GetVisit)
  /\ WF_vars(GetReturn)

InitRangeFilter == RFInit /\ LRUIdle /\ TrkIdle /\ IngIdle /\ FacIdle /\ IsoIdle /\ DedupIdle /\ UpdIdle /\ ExIdle /\ RIIdle /\ SUIdle /\ RRIdle
SpecRangeFilter == InitRangeFilter /\ [][RFNext]_vars

InitIngest == IngInit /\ LRUIdle /\ TrkIdle /\ RFIdle /\ FacIdle /\ IsoIdle /\ DedupIdle /\ UpdIdle /\ ExIdle /\ RIIdle /\ SUIdle /\ RRIdle
SpecIngest == InitIngest /\ [][IngNext]_vars

InitStartup ==
  IngInit /\ SUInit /\ LRUIdle /\ TrkIdle /\ RFIdle /\ FacIdle /\ IsoIdle /\ DedupIdle /\ UpdIdle /\ ExIdle /\ RIIdle /\ RRIdle
SpecStartup == InitStartup /\ [][StartupNext]_vars

\* the event loop runs a task that is ready, and a call that a task awaits
\* returns or raises: the worker, its tasks and the cleanup call go on
IngProgress ==
  \/ APMMark
  \/ CleanupJoin
  \/ WorkerPoll
  \/ WorkerWake
  \/ \E u \in Users, o \in Outcomes : UserLoad(u, o)
  \/ \E id \in DOMAIN gt, o \in Outcomes : GroupAsk(id, o)
  \/ \E id \in DOMAIN gt, r \in LLMOutcomes : GroupResponse(id, r)
  \/ \E id \in DOMAIN gt, o \in Outcomes : GroupApply(id, o)
  \/ \E id \in DOMAIN gt, o \in Outcomes : GroupConsolidate(id, o)
  \/ \E id \in DOMAIN gt, m \in 1..Len(history), o \in Outcomes : GroupMark(id, m, o)
  \/ WorkerGathered
SpecIngestFair == InitIngest /\ [][IngNext]_vars /\ WF_vars(IngProgress)

InitLRUNew == LRUCallInit /\ TrkIdle /\ RFIdle /\ IngIdle /\ FacIdle /\ IsoIdle /\ DedupIdle /\ UpdIdle /\ ExIdle /\ RIIdle /\ SUIdle /\ RRIdle
SpecLRUNew == InitLRUNew /\ [][LRUNewNext]_vars

\* The program when the language model answers every request with a text that
\* holds no JSON object and every mark_messages_ingested call succeeds: any
\* other call may fail as before.
UnparsedProgress ==
  \/ APMMark
  \/ CleanupJoin
  \/ WorkerPoll
  \/ WorkerWake
  \/ \E u \in Users, o \in Outcomes : UserLoad(u, o)
  \/ \E id \in DOMAIN gt, o \in Outcomes : GroupAsk(id, o)
  \/ \E id \in DOMAIN gt : GroupResponse(id, [kind |-> "unparsed", commands |-> 0])
  \/ \E id \in DOMAIN gt, m \in 1..Len(history) : GroupMark(id, m, "ok")
  \/ WorkerGathered

UnparsedNext ==
  \/ IngTick
  \/ \E u \in Senders, iso \in IsoSet, o \in Outcomes : APMAddHistory(u, iso, o)
  \/ CleanupCall
  \/ UnparsedProgress

SpecUnparsed == InitIngest /\ [][UnparsedNext]_vars /\ WF_vars(UnparsedProgress)

\* The worker with nothing failing: every call to the storage and to the language
\* model returns, the worker is never shut down, and the clock advances whenever
\* a marked tracker waits for its time limit.
BacklogTick ==
  /\ \E u \in DOMAIN _dirty_users._trackers :
        /\ _dirty_users._trackers[u]._message_count > 0
        /\ ~should_update(_dirty_users._trackers[u], ing_now)
  /\ ing_now' = ing_now + PROFILE_UPDATE_TIME_LIMIT_SEC
  /\ UNCHANGED <<history, _dirty_users, _is_shutting_down, w_pc, ut, gt, apm, g_msg, cleanup_pc, notIng>>

\* k of get_history_messages_by_ingestion_status, 100 in the source, scaled so
\* that more rows than one batch loads can be pending
MaxBatch == 2

\* _process_uningested_memories with that k: the rows are loaded, sorted and
\* grouped, and the process_messages tasks start
BacklogLoad(u) ==
  /\ ut[u] = "load"
  /\ LET groups == GroupBy(SortedByKey(
                     get_history_messages_by_ingestion_status(history, u, MaxBatch, FALSE), 1))
         new == [id \in {<<u, i>> : i \in 1..Len(groups)} |->
                   [messages |-> [j \in 1..Len(groups[id[2]]) |-> groups[id[2]][j].id],
                    i |-> 1, pc |-> "start", commands |-> 0,
                    mark_tasks |-> <<>>, marks_left |-> {}]]
     IN  /\ gt' = new @@ gt
         /\ ut' = [ut EXCEPT ![u] = "run"]
  /\ UNCHANGED <<history, _dirty_users, ing_now, _is_shutting_down, w_pc, apm, g_msg,
                 cleanup_pc, notIng>>

BacklogWorker ==
  \/ WorkerPoll
  \/ WorkerWake
  \/ \E u \in Users : BacklogLoad(u)
  \/ \E id \in DOMAIN gt : GroupAsk(id, "ok")
  \/ \E id \in DOMAIN gt, r \in LLMOutcomes :
        r.kind \in {"unparsed", "commands"} /\ GroupResponse(id, r)
  \/ \E id \in DOMAIN gt : GroupApply(id, "ok")
  \/ \E id \in DOMAIN gt : GroupConsolidate(id, "ok")
  \/ \E id \in DOMAIN gt, m \in 1..Len(history) : GroupMark(id, m, "ok")
  \/ WorkerGathered

BacklogNext ==
  \/ \E u \in Senders, iso \in IsoSet : APMAddHistory(u, iso, "ok")
  \/ APMMark
  \/ BacklogTick
  \/ BacklogWorker

SpecBacklog ==
  /\ InitIngest /\ [][BacklogNext]_vars
  /\ WF_vars(APMMark) /\ WF_vars(BacklogTick) /\ WF_vars(BacklogWorker)

InitFacade == FacInit /\ LRUIdle /\ TrkIdle /\ RFIdle /\ IngIdle /\ IsoIdle /\ DedupIdle /\ UpdIdle /\ ExIdle /\ RIIdle /\ SUIdle /\ RRIdle
SpecFacade == InitFacade /\ [][FacNext]_vars
SpecDeleteAll == InitFacade /\ [][DeleteAllNext]_vars

InitIsolations == IsoInit /\ LRUIdle /\ TrkIdle /\ RFIdle /\ IngIdle /\ FacIdle /\ DedupIdle /\ UpdIdle /\ ExIdle /\ RIIdle /\ SUIdle /\ RRIdle
SpecIsolations == InitIsolations /\ [][IsoNext]_vars

InitDedup == DedupInit /\ LRUIdle /\ TrkIdle /\ RFIdle /\ IngIdle /\ FacIdle /\ IsoIdle /\ UpdIdle /\ ExIdle /\ RIIdle /\ SUIdle /\ RRIdle
SpecDedup == InitDedup /\ [][DedupNext]_vars

InitUpdate ==
  UpdInit /\ LRUIdle /\ TrkIdle /\ RFIdle /\ IngIdle /\ FacIdle /\ IsoIdle /\ DedupIdle /\ ExIdle /\ RIIdle /\ SUIdle /\ RRIdle
SpecUpdate == InitUpdate /\ [][UpdNext]_vars

InitExtract ==
  ExInit /\ LRUIdle /\ TrkIdle /\ RFIdle /\ IngIdle /\ FacIdle /\ IsoIdle /\ DedupIdle /\ UpdIdle /\ RIIdle /\ SUIdle /\ RRIdle
SpecExtract == InitExtract /\ [][ExNext]_vars

InitRerank ==
  RRInit /\ LRUIdle /\ TrkIdle /\ RFIdle /\ IngIdle /\ FacIdle /\ IsoIdle /\ DedupIdle /\ UpdIdle /\ ExIdle /\ RIIdle /\ SUIdle
SpecRerank == InitRerank /\ [][RRNext]_vars

InitResources ==
  RIInit /\ LRUIdle /\ TrkIdle /\ RFIdle /\ IngIdle /\ FacIdle /\ IsoIdle /\ DedupIdle /\ UpdIdle /\ ExIdle /\ SUIdle /\ RRIdle
\* the call runs to its end: nothing in it waits
SpecResources == InitResources /\ [][RINext]_vars /\ WF_vars(RINext)

-----------------------------------------------------------------------------
\* the n most recently touched distinct keys of a touch history
RECURSIVE MostRecent(_, _, _)
MostRecent(log, n, acc) ==
  IF Len(log) = 0 \/ Cardinality(acc) >= n THEN acc
  ELSE MostRecent(SubSeq(log, 1, Len(log) - 1), n, acc \cup {log[Len(log)]})

\* C1: after any sequence of get and put calls the resident keys are exactly the
\* capacity most recently touched distinct keys (all of them when fewer were
\* touched); a put or a hitting get is a touch.
C1_ResidentAreMostRecent ==
  DOMAIN lru.cache = MostRecent(touched, lru.capacity, {})

\* a full cache has just evicted on a put, after some key had been touched twice
C1_Witness ==
  /\ lru_last = "put_evict"
  /\ Cardinality(DOMAIN lru.cache) = lru.capacity
  /\ \E i, j \in 1..Len(touched) : i < j /\ touched[i] = touched[j]
  /\ \E k \in Keys : k \in {touched[i] : i \in 1..Len(touched)} /\ k \notin DOMAIN lru.cache

-----------------------------------------------------------------------------
TrackerOf(u) ==
  IF u \in DOMAIN tm._trackers THEN tm._trackers[u]
  ELSE ProfileUpdateTracker(u, tm._message_limit, tm._time_limit_sec)

\* C2: get_users_to_update returns u exactly when u was marked n >= 1 times since
\* its last drain and (n >= message_limit or the first of those marks is at least
\* time_limit_sec old): every user due when the call started is returned, every
\* returned user is due when it returns, and a user with no mark is never returned.
C2_ReturnsExactlyDueUsers ==
  g_call.done =>
    /\ g_call.lo \subseteq g_call.ret
    /\ g_call.ret \subseteq g_call.hi
    /\ \A u \in Users : g_call.n[u] = 0 => u \notin g_call.ret

\* one call returned a user below the message limit whose first mark was old
\* enough, and left alone a marked user whose first mark was too recent
C2_Witness ==
  /\ g_call.done
  /\ \E u \in g_call.ret : g_call.n[u] < tm._message_limit
  /\ \E u \in Users \ g_call.ret : g_call.n[u] >= 1

\* C3: get_users_to_update is atomic with respect to mark_update: when it returns,
\* every returned user is idle, every other tracker is as it was when the call
\* started, each tracker holds exactly the marks made since its user's last drain,
\* and a returned user had been marked since its previous drain.
C3_GetUsersAtomic ==
  /\ g_call.done =>
        /\ DOMAIN tm._trackers = DOMAIN g_call.before
        /\ \A u \in DOMAIN g_call.before :
              IF u \in g_call.ret
              THEN tm._trackers[u] = Tracker_reset(g_call.before[u])
              ELSE tm._trackers[u] = g_call.before[u]
        /\ \A u \in g_call.ret : g_call.n[u] >= 1
  /\ (get_pc = "idle" /\ \A u \in Users : mark_pc[u] # "locked") =>
        \A u \in Users : /\ TrackerOf(u)._message_count = g_n[u]
                          /\ TrackerOf(u)._first_updated = g_first[u]

\* a call returned some users and kept a pending one while a mark_update call of
\* a returned user was waiting for the lock
C3_Witness ==
  /\ g_call.done
  /\ \E u \in g_call.ret : mark_pc[u] = "waiting"
  /\ \E u \in Users \ g_call.ret : TrackerOf(u)._message_count >= 1

-----------------------------------------------------------------------------
Items(arr) == [i \in 1..Len(arr) |-> arr[i][2]]

\* C10: for a descending input, the list range_filter returns is a prefix of the
\* input items (same items, same order, no gap); an empty input returns empty.
C10_OutputIsPrefix ==
  /\ rf_pc = "done" =>
        /\ Len(rf_out) <= Len(rf_arr)
        /\ rf_out = SubSeq(Items(rf_arr), 1, Len(rf_out))
  /\ rf_arr = <<>> => rf_pc # "raised" /\ rf_out = <<>>

\* a call returned a proper, non-empty prefix that the max_range gate cut shorter
\* than the max_std gate allowed
C10_Witness ==
  /\ rf_pc = "done"
  /\ Len(rf_out) >= 1
  /\ Len(rf_out) < Take([i \in 1..Len(rf_arr) |-> rf_arr[i][1]], rf_max_std)

-----------------------------------------------------------------------------
SameGroup(m1, m2) ==
  /\ history[m1].user_id = history[m2].user_id
  /\ history[m1].isolations = history[m2].isolations

\* C4: for two history messages m1 before m2 of the same user and isolation, the
\* LLM is asked about m2 (and so a command of m2 is applied) only after the
\* update step of m1 has run and has applied every command derived from m1.
C4_AppliedInMessageOrder ==
  \A m1, m2 \in 1..Len(history) :
    (m1 < m2 /\ SameGroup(m1, m2) /\ g_msg[m2].updates > 0) =>
      g_msg[m1].updates > 0 /\ ~g_msg[m1].open

\* the second message of an isolation is in its update step, after the first, while
\* a message of the same user under another isolation, stored between the two, is
\* in its own update step
C4_Witness ==
  \E m1, m2, m3 \in 1..Len(history) :
    /\ m1 < m3 /\ m3 < m2
    /\ SameGroup(m1, m2)
    /\ history[m3].user_id = history[m1].user_id /\ ~SameGroup(m1, m3)
    /\ g_msg[m2].open /\ g_msg[m3].open

\* C5: is_ingested of a history message only goes from false to true, and a message
\* that is marked ingested is never passed to the update step again.
C5_IngestedOnce ==
  [][\A m \in 1..Len(history) :
       history[m].is_ingested =>
         /\ Len(history') >= m
         /\ history'[m].is_ingested
         /\ g_msg'[m].updates = g_msg[m].updates]_vars

\* on a later pass of the worker a message is in its update step while an earlier
\* message of the same user and isolation is already marked ingested
C5_Witness ==
  \E m1, m2 \in 1..Len(history) :
    /\ m1 < m2 /\ SameGroup(m1, m2)
    /\ history[m1].is_ingested /\ g_msg[m1].updates = 1
    /\ g_msg[m2].open /\ ~history[m2].is_ingested

\* C6: a message whose LLM call failed is not marked ingested.
C6_FailedMessageNotMarked ==
  \A m \in 1..Len(history) : g_msg[m].llm_failed => ~history[m].is_ingested

\* C7: no failure while a message is ingested ends the background ingestion task.
C7_WorkerSurvivesFailures == w_pc # "crashed"

-----------------------------------------------------------------------------
\* C8: when add_new_profile, delete_user_profile_feature, delete_user_profile or
\* the consolidation's delete_profile_feature_by_id under isolation I for user u
\* has returned, the cache holds no entry for (u, I), whatever get_user_profile
\* calls ran meanwhile.
C8_NoEntryAfterWrite ==
  f_done.op # "none" =>
    CacheKey(f_done.user_id, f_done.isolations) \notin DOMAIN _profile_cache.cache

\* C9: a get_user_profile(u, J) that returns, returns a feature added under
\* isolations I for u (and still stored) exactly when I agrees with J on every key
\* of J, also when get_user_profile(u, J) had been called before the add.
C9_GetReturnsMatchingFeatures ==
  f_ret.op # "none" =>
    \A r \in profile :
      r.user_id = f_ret.user_id =>
        (r.id \in f_ret.profile <=> Matches(r.isolations, f_ret.isolations))

-----------------------------------------------------------------------------
Scores(arr) == [i \in 1..Len(arr) |-> arr[i][1]]

\* C11: for a single-element input and any max_range >= 0 and max_std >= 0,
\* range_filter returns that element.
C11_SingleElementReturned ==
  (rf_pc # "input" /\ Len(rf_arr) = 1) => (rf_pc = "done" /\ rf_out = Items(rf_arr))

\* C12: every retained score s has scores[0] - s <= max_range, and the population
\* standard deviation of the scores returned is strictly less than max_std; the
\* scores [0.9, 0.85, 0.4] with max_range 0.2 and max_std 1.0 give the first two.
C12_RetainedWithinGates ==
  rf_pc = "done" =>
    /\ \A i \in 1..Len(rf_out) : Scores(rf_arr)[i] >= rf_arr[1][1] - rf_max_range
    /\ Len(rf_out) >= 1 => StdBelow(Scores(rf_arr), Len(rf_out), rf_max_std)
    /\ (Scores(rf_arr) = <<90, 85, 40>> /\ rf_max_range = 20 /\ rf_max_std = 100)
          => rf_out = <<1, 2>>

\* C13: when max_range exceeds scores[0] minus the smallest score and max_std
\* exceeds the standard deviation of every prefix, range_filter returns the whole
\* input unchanged.
C13_UnboundedGatesReturnAll ==
  (/\ rf_pc # "input"
   /\ Len(rf_arr) >= 1
   /\ rf_max_range > rf_arr[1][1] - rf_arr[Len(rf_arr)][1]
   /\ \A d \in 1..Len(rf_arr) : StdBelow(Scores(rf_arr), d, rf_max_std))
    => (rf_pc = "done" /\ rf_out = Items(rf_arr))

-----------------------------------------------------------------------------
\* the values the cited rows carry for key k
CitedValues(k) ==
  {ci_associations[p[1]][2][p[2]][2] :
     p \in {q \in (1..Len(ci_associations)) \X (1..Len(IsoKeys)) :
              /\ q[2] <= Len(ci_associations[q[1]][2])
              /\ ci_associations[q[1]][2][q[2]][1] = k}}

\* C15: the derived isolations contain key k with value v exactly when some cited
\* row has k and all cited rows that have k carry the same value v, whatever the
\* order of the rows and however many rows carry each value.
C15_IsolationsIntersection ==
  ci_pc = "done" =>
    /\ \A k \in Range(IsoKeys) :
         IF Cardinality(CitedValues(k)) = 1
         THEN \E i \in 1..Len(ci_out) : ci_out[i][1] = k /\ ci_out[i][2] \in CitedValues(k)
         ELSE \A i \in 1..Len(ci_out) : ci_out[i][1] # k
    /\ \A i, j \in 1..Len(ci_out) : ci_out[i][1] = ci_out[j][1] => i = j

\* C14: the citations stored with a consolidated memory are the history ids that
\* get_all_citations_for_ids returns for the citations the model listed, no more
\* and no less, and each of them is the id of a history row.
C14_CitationsAreResolvedHistoryIds ==
  \A i \in 1..Len(dd_added) :
    \E r \in dd_profile :
      /\ r.id = dd_added[i].id
      /\ Range(r.citations) =
           {a[1] : a \in Range(get_all_citations_for_ids(
                                dd_profile, dd_history, dd_added[i].listed))}
      /\ Range(r.citations) \subseteq DOMAIN dd_history

\* a consolidated memory was stored whose history ids differ from the listed ids
C14_Witness ==
  \E i \in 1..Len(dd_added) :
    \E r \in dd_profile :
      /\ r.id = dd_added[i].id
      /\ r.citations # <<>>
      /\ Range(r.citations) # Range(dd_added[i].listed)

\* C16: when the parsed answer lacks consolidate_memories or keep_memories, or
\* either of them is not a list, no entry of the section is deleted.
C16_MalformedAnswerDeletesNothing ==
  (/\ updated_profile_entries.kind = "dict"
   /\ (updated_profile_entries.consolidate # "list"
         \/ updated_profile_entries.keep # "list"))
    => \A r \in dd_profile : r.id \in Range(memories) => ~r.deleted

\* the response of the call ends, for (feature, tag) ft, with a delete of ft
\* without a value followed by an add of ft with value v
DeleteThenAdd(ft, v) ==
  LET cmds == valid_commands(up_response)
  IN  \E i \in 1..(Len(cmds) - 1) :
        /\ cmds[i] = [command |-> "delete", ft |-> ft, value |-> None]
        /\ cmds[i + 1] = [command |-> "add", ft |-> ft, value |-> v]
        /\ \A j \in (i + 2)..Len(cmds) : cmds[j].ft # ft

\* the live rows of ft that a read under the isolations iso returns
LiveUnder(p, ft, iso) == {r \in p : r.ft = ft /\ Matches(r.isolations, iso)}

\* C17: when one response carries a delete of (feature, tag) followed by an add
\* of the same (feature, tag) with value v, the two are applied in the order of
\* the response: once the call has applied its commands there is exactly one
\* live entry of (feature, tag) under the isolation of the message, with value v,
\* whatever entries there were before.
C17_DeleteThenAddLeavesOne ==
  \A ft \in FeatureTags, v \in ProfileValues :
    (up_pc = "done" /\ up_response.form = "json" /\ DeleteThenAdd(ft, v))
      => LiveUnder(up_profile, ft, up_isolations)
           = {[ft |-> ft, value |-> v, isolations |-> up_isolations]}

\* such a response was applied to a profile that held two entries of ft, one of
\* them with the value v
C17_Witness ==
  \E ft \in FeatureTags, v \in ProfileValues :
    /\ up_pc = "done" /\ up_response.form = "json" /\ DeleteThenAdd(ft, v)
    /\ Cardinality(LiveUnder(up_before, ft, up_isolations)) = 2
    /\ \E r \in up_before : r.ft = ft /\ r.value = v

\* C18: a response of the form <think>T</think> followed by a JSON object of
\* valid commands is parsed from the text after </think>, its commands are
\* applied, and the call completes without raising.
C18_ThinkResponseApplied ==
  (up_response.form = "think" /\ valid_commands(up_response) # <<>>)
    => up_pc \in {"apply", "done"}

\* C19: once cleanup() is called the worker finishes the batch it is in (or its
\* sleep), starts no new batch and leaves its loop; storage.cleanup() is then
\* always called, and only after the worker has left its loop with none of its
\* tasks still running, so that no task calls the storage after its release.
C19_CleanupDrainsThenReleases ==
  /\ [][(_is_shutting_down /\ w_pc # "gather") => w_pc' # "gather"]_vars
  /\ [](cleanup_pc = "released" =>
         (w_pc = "exited" /\ gt = <<>> /\ \A u \in Users : ut[u] = "none"))
  /\ [](cleanup_pc = "await" => <>(w_pc = "exited" /\ cleanup_pc = "released"))

\* the step in which add_persona_message marks the user of its message
MarkStep == apm.pc = "mark" /\ apm'.pc = "idle"

\* C20: add_persona_message appends the message to the history first and marks
\* the user only afterwards; a failed append marks nobody; the call neither
\* invokes the model nor waits for the worker; and whenever the call marks the
\* user, its message is in the history and still uningested.
C20_MarkedMessageUningested ==
  /\ [][_dirty_users'._trackers # _dirty_users._trackers /\ w_pc' = w_pc => MarkStep]_vars
  /\ [][Len(history') > Len(history) => _dirty_users' = _dirty_users]_vars
  /\ [][apm' # apm => UNCHANGED <<w_pc, ut, gt>>]_vars
  /\ [](apm.pc = "mark" => ENABLED APMMark)
  /\ [][MarkStep => /\ apm.id \in 1..Len(history)
                    /\ history[apm.id].user_id = apm.user_id
                    /\ ~history[apm.id].is_ingested]_vars

\* C20, as it holds: add_persona_message appends the message to the history
\* first, as an uningested row, and marks the user only afterwards; a failed
\* append marks nobody; the call neither invokes the model nor waits for the
\* worker; whenever the call marks the user, its message is in the history, and
\* if it is no longer uningested there the worker has already processed it.
C20_AppendThenMark ==
  /\ [][_dirty_users'._trackers # _dirty_users._trackers /\ w_pc' = w_pc => MarkStep]_vars
  /\ [][Len(history') > Len(history) =>
          /\ _dirty_users' = _dirty_users
          /\ ~history'[Len(history')].is_ingested]_vars
  /\ [][apm' # apm => UNCHANGED <<w_pc, ut, gt>>]_vars
  /\ [](apm.pc = "mark" => ENABLED APMMark)
  /\ [][MarkStep => /\ apm.id \in 1..Len(history)
                    /\ history[apm.id].user_id = apm.user_id
                    /\ history[apm.id].is_ingested => g_msg[apm.id].updates > 0]_vars

\* the call has marked the user of a message that is in the history, uningested
C20_Witness ==
  /\ apm.pc = "idle"
  /\ \E u \in DOMAIN _dirty_users._trackers :
        /\ _dirty_users._trackers[u]._message_count > 0
        /\ \E i \in 1..Len(history) :
              history[i].user_id = u /\ ~history[i].is_ingested

-----------------------------------------------------------------------------
\* C21: constructing an LRUCache with a capacity N <= 0 fails with an error and
\* yields no cache; constructing it with N > 0 succeeds, and the cache it yields
\* is empty and has capacity N.
C21_NonPositiveCapacityRaises ==
  /\ lru_last = "call" => touched = <<>>
  /\ (lru_last # "call" /\ lru_capacity <= 0) => lru_last = "raised" /\ touched = <<>>
  /\ (lru_last # "call" /\ lru_capacity > 0) =>
       /\ lru_last # "raised"
       /\ lru.capacity = lru_capacity
       /\ lru_last = "new" => DOMAIN lru.cache = {} /\ LRUOrder(lru) = <<>>

\* the constructor was called with capacity 0 and raised
C21_Witness == lru_last = "raised" /\ lru_capacity = 0

-----------------------------------------------------------------------------
\* the loop of process_messages is left for the gather of the mark tasks
LoopEnds(id) ==
  /\ id \in DOMAIN gt /\ id \in DOMAIN gt'
  /\ gt[id].pc \notin {"marks", "done", "raised"}
  /\ gt'[id].pc = "marks"

\* C22 (as stated): the consolidation pass of a group runs only after the commands
\* of its last message have been applied, never for a non-last message, and it
\* does run for the last message of every group: the loop over the group's
\* messages is never left without it.
C22_ConsolidationForEveryGroup ==
  [][\A id \in DOMAIN gt :
       /\ (id \in DOMAIN gt' /\ gt'[id].pc = "consolidate") =>
             IsLast(gt'[id]) /\ gt'[id].commands = 0
       /\ LoopEnds(id) => gt[id].pc = "consolidate"]_vars

\* C22 (amended): the consolidation pass of a group runs only after the commands
\* of its last message have been applied, never for a non-last message; the loop
\* is left without it only when the update of the last message returned early,
\* on a failed language-model call or on a response that holds no JSON object.
C22_ConsolidationOnlyAfterLast ==
  [][\A id \in DOMAIN gt :
       /\ (id \in DOMAIN gt' /\ gt'[id].pc = "consolidate") =>
             /\ IsLast(gt'[id]) /\ gt'[id].commands = 0
             /\ gt[id].pc \in {"llm", "apply", "consolidate"}
             /\ gt[id].i = gt'[id].i
       /\ (LoopEnds(id) /\ gt[id].pc # "consolidate") =>
             \E r \in LLMOutcomes : r.kind \in {"error", "unparsed"} /\ GroupResponse(id, r)]_vars

\* the consolidation pass is about to run for a group of two messages, the first
\* of which was processed without it
C22_Witness ==
  \E id \in DOMAIN gt :
    /\ gt[id].pc = "consolidate"
    /\ Len(gt[id].messages) >= 2
    /\ gt[id].mark_tasks = <<gt[id].messages[1]>>

-----------------------------------------------------------------------------
Ingested(i) == i <= Len(history) /\ history[i].is_ingested

\* C23: when the worker keeps running, every call returns and time advances,
\* every message appended by add_persona_message is eventually marked ingested,
\* also when more messages are pending than one batch loads and the user sends
\* nothing further.
C23_EveryMessageEventuallyIngested ==
  \A i \in 1..MaxMessages : (Len(history) >= i) ~> Ingested(i)

-----------------------------------------------------------------------------
\* C24: range_filter cuts at the first prefix length whose population standard
\* deviation is not below max_std: every prefix of the returned list, of length
\* 1 up to its own length, has a standard deviation below max_std.
C24_EveryKeptPrefixBelowMaxStd ==
  rf_pc = "done" =>
    \A d \in 1..Len(rf_out) : StdBelow(Scores(rf_arr), d, rf_max_std)

-----------------------------------------------------------------------------
\* C25: within an isolation group the mark of message i takes effect before the
\* update of message i+1 starts, so whenever the group is at its message j, also
\* after a failure there, every message of the group before j is marked ingested.
C25_MarkedBeforeNextUpdate ==
  \A id \in DOMAIN gt :
    \A j \in 1..(gt[id].i - 1) : history[gt[id].messages[j]].is_ingested

-----------------------------------------------------------------------------
\* an object with command add and feature, tag and value, or with command delete
\* and feature and tag
Applicable(c) ==
  \/ /\ c.command = "add"
     /\ c.ft \in FeatureTags
     /\ c.value \in ProfileValues
  \/ /\ c.command = "delete"
     /\ c.ft \in FeatureTags

\* the storage after the first n of the commands cmds, each applied in turn
RECURSIVE AppliedInTurn(_, _, _, _)
AppliedInTurn(p, cmds, n, iso) ==
  IF n = 0 THEN p
  ELSE LET q == AppliedInTurn(p, cmds, n - 1, iso)
           c == cmds[n]
       IN  IF c.command = "add" THEN add_profile_row(q, c.ft, c.value, iso)
           ELSE delete_profile_rows(q, c.ft, c.value, iso)

-----------------------------------------------------------------------------
\* the update of message m has returned
Discarded(m) == m <= Len(history) /\ g_msg[m].updates > 0 /\ ~g_msg[m].open

\* C27: when no JSON object can be read from the response for a message, the
\* update is discarded (no command is applied) and the worker does not fail at
\* it, and the message is not retried: it is marked ingested and its update
\* never runs a second time.
C27_UnparsedMessageMarkedOnce ==
  /\ [](\A id \in DOMAIN gt : gt[id].pc \notin {"apply", "consolidate"})
  /\ [](\A m \in 1..Len(history) : g_msg[m].updates <= 1)
  /\ [][\A id \in DOMAIN gt :
          GroupResponse(id, [kind |-> "unparsed", commands |-> 0]) => w_pc' = w_pc]_vars
  /\ \A m \in 1..MaxMessages : Discarded(m) ~> Ingested(m)

-----------------------------------------------------------------------------
\* the matches that lie inside no other match: the objects of the text
Objects(t) ==
  {m \in Matches_at(t) : ~\E o \in Matches_at(t) : o[1] < m[1] /\ m[2] < o[2]}

\* C28: for a response with no think tags and no tag or fence pattern that holds
\* several brace-delimited objects, the candidate is the last {...} substring of
\* the text that the pattern matches, not the first.
C28_LastObjectSelected ==
  (ex_pc = "candidate" /\ Cardinality(Objects(response_text)) >= 2) =>
    \E m \in Objects(response_text) :
      /\ \A o \in Objects(response_text) : o[1] <= m[1]
      /\ response_json = SubSeq(response_text, m[1], m[2])

-----------------------------------------------------------------------------
\* the ids of the entries that are deleted
Deleted(p) == {r.id : r \in {q \in p : q.deleted}}

\* C29: when the answer carries both lists, the deletion loop deletes exactly the
\* entries of the section whose id is not in keep_memories: while it runs only
\* such entries are deleted, and from its end on all of them are; every listed
\* entry stays live and no entry outside the section is deleted.
C29_ExactlyUnlistedSectionEntriesDeleted ==
  (/\ updated_profile_entries.kind = "dict"
   /\ updated_profile_entries.consolidate = "list"
   /\ updated_profile_entries.keep = "list")
    => /\ Deleted(dd_profile) \subseteq
            Range(memories) \ updated_profile_entries.keep_memories
       /\ dd_pc # "delete" =>
            Deleted(dd_profile) = Range(memories) \ updated_profile_entries.keep_memories

\* a call has deleted one entry of a section of two and kept the listed one, with
\* an entry outside the section in the storage
C29_Witness ==
  /\ dd_pc = "done"
  /\ updated_profile_entries.kind = "dict"
  /\ updated_profile_entries.consolidate = "list"
  /\ updated_profile_entries.keep = "list"
  /\ Len(memories) = 2
  /\ Cardinality(Deleted(dd_profile)) = 1
  /\ \E r \in dd_profile : r.id \notin Range(memories) /\ ~r.deleted

-----------------------------------------------------------------------------
\* C30: two isolation maps that are equal as maps, with their keys supplied in
\* different orders, address the same entry of the profile cache: the cache
\* never holds two entries of one user for one map.
C30_OneEntryPerIsolationMap ==
  \A u \in ProfileUsers, d1, d2 \in Isolations :
    (/\ Range(d1) = Range(d2)
     /\ CacheKey(u, d1) \in DOMAIN _profile_cache.cache
     /\ CacheKey(u, d2) \in DOMAIN _profile_cache.cache)
      => CacheKey(u, d1) = CacheKey(u, d2)

-----------------------------------------------------------------------------
\* C31: initialize builds in topological order: every build is handed, as
\* injections, the cache and the resources built before it in the same call, and
\* these hold every dependency id of the resource; no resource is built twice,
\* none that the cache holds is built, and the call returns with every defined
\* resource that the cache does not hold built.
C31_BuiltInTopologicalOrder ==
  /\ \A k \in 1..Len(ri_injections) :
       /\ ri_injections[k].id = initialized_resources[k]
       /\ ri_injections[k].injections =
            resource_cache \cup {initialized_resources[j] : j \in 1..(k - 1)}
       /\ resource_dependency_graph[ri_injections[k].id] \subseteq ri_injections[k].injections
  /\ \A j, k \in 1..Len(initialized_resources) :
       initialized_resources[j] = initialized_resources[k] => j = k
  /\ Range(initialized_resources) \cap resource_cache = {}
  /\ ri_pc = "returned" =>
       Range(initialized_resources) = DOMAIN resource_dependency_graph \ resource_cache

\* a call has returned after two builds, the second of a resource that depends
\* on the first and on a resource of the cache, with a defined resource that the
\* cache holds left alone
C31_Witness ==
  /\ ri_pc = "returned"
  /\ Len(initialized_resources) = 2
  /\ initialized_resources[1] \in resource_dependency_graph[initialized_resources[2]]
  /\ resource_dependency_graph[initialized_resources[2]] \cap resource_cache # {}
  /\ DOMAIN resource_dependency_graph \cap resource_cache # {}

-----------------------------------------------------------------------------
\* the defined resources that a set of them depends on, in at most n steps
RECURSIVE DependsOn(_, _, _)
DependsOn(graph, S, n) ==
  IF n = 0 THEN S
  ELSE DependsOn(graph, S \cup UNION {graph[r] \cap DOMAIN graph : r \in S}, n - 1)

\* some defined resource depends on itself, directly or through others
Cyclic(graph) ==
  \E r \in DOMAIN graph :
     r \in DependsOn(graph, graph[r] \cap DOMAIN graph, Cardinality(DOMAIN graph))

\* some dependency id is neither defined nor in the cache
Unresolved(graph, cache) ==
  UNION {graph[r] : r \in DOMAIN graph} \ (DOMAIN graph \cup cache) # {}

-----------------------------------------------------------------------------
\* C33: until startup has completed, the ingestion worker has not run: it is
\* still before its first poll of the users to update and has started no task.
C33_WorkerIdleUntilStartup ==
  startup_pc # "started" =>
    /\ w_pc = "poll"
    /\ \A u \in Users : ut[u] = "none"

-----------------------------------------------------------------------------
\* C34: when delete_all returns the profile cache holds nothing that was read
\* from the storage before the wipe: every cached profile is the empty profile
\* that the storage now holds, so the next get_user_profile returns it.
C34_NoStaleProfileAfterDeleteAll ==
  f_done.op = "delete_all" =>
    \A key \in DOMAIN _profile_cache.cache :
       LRUCache_get_value(_profile_cache, key) = {}

-----------------------------------------------------------------------------
\* C35: IdentityReranker.rerank returns the candidates in their original order,
\* also when a candidate occurs more than once; and the list any reranker
\* returns is the candidates arranged by descending score of their positions:
\* some permutation of the positions yields it with no score below a later one.
C35_IdentityKeepsOrder ==
  /\ rr_pc = "identity" => rr_out = rr_candidates
  /\ rr_pc \in {"identity", "other"} =>
       \E perm \in [1..Len(rr_candidates) -> 1..Len(rr_candidates)] :
          /\ \A i, j \in 1..Len(rr_candidates) : perm[i] = perm[j] => i = j
          /\ rr_out = [k \in 1..Len(rr_candidates) |-> rr_candidates[perm[k]]]
          /\ \A k \in 1..(Len(rr_candidates) - 1) :
               rr_scores[perm[k]] >= rr_scores[perm[k + 1]]

-----------------------------------------------------------------------------
\* C36: while the worker lives the update step is started at most once for each
\* history message; no message is in two process_messages tasks at once; and the
\* worker polls get_users_to_update only when no task of a batch is left and
\* every message whose update was started is marked ingested.
C36_OneUpdatePerMessage ==
  /\ [](\A m \in 1..Len(history) : g_msg[m].updates <= 1)
  /\ [](\A id1, id2 \in DOMAIN gt :
          id1 # id2 => Range(gt[id1].messages) \cap Range(gt[id2].messages) = {})
  /\ [][(w_pc = "poll" /\ w_pc' \in {"sleep", "gather"}) =>
          /\ gt = <<>>
          /\ \A u \in Users : ut[u] = "none"
          /\ \A m \in 1..Len(history) :
               g_msg[m].updates > 0 => history[m].is_ingested /\ ~g_msg[m].open]_vars

\* the worker has polled again after a batch: a message of the first batch is
\* marked ingested after its one update, and a later message of the same user
\* is in a task of the batch that is now in flight
C36_Witness ==
  /\ w_pc = "gather"
  /\ \E id \in DOMAIN gt, m \in 1..Len(history) :
        /\ history[m].user_id = id[1]
        /\ m \notin Range(gt[id].messages)
        /\ history[m].is_ingested /\ g_msg[m].updates = 1
        /\ gt[id].pc = "llm"

-----------------------------------------------------------------------------
\* C37: every storage call the update of message m issues names the user of m and
\* the isolations of m, and every add carries exactly the citation list [m.id];
\* so every row the update adds is stored under the isolations of m, and every
\* row it deletes is one that the isolation filter of m selects.
C37_WritesUnderMessageScope ==
  /\ \A k \in 1..Len(up_calls) :
       /\ up_calls[k].user_id = up_record.user_id
       /\ up_calls[k].isolations = up_isolations
       /\ up_calls[k].op = "add_profile_feature" =>
            up_calls[k].citations = <<up_record.id>>
  /\ \A r \in up_profile \ up_before : r.isolations = up_isolations
  /\ \A r \in up_before \ up_profile : Matches(r.isolations, up_isolations)

\* the update of message 2 of user u2 has deleted a row and added another
C37_Witness ==
  /\ up_pc = "done"
  /\ up_record = [id |-> 2, user_id |-> "u2"]
  /\ \E j, k \in 1..Len(up_calls) :
        /\ up_calls[j].op = "delete_profile_feature"
        /\ up_calls[k].op = "add_profile_feature"
  /\ up_profile \ up_before # {}
  /\ up_before \ up_profile # {}

-----------------------------------------------------------------------------
\* C38: when the language-model call of the update of a message fails, the update
\* returns at once: the message is at no time in the phase that applies commands
\* nor in the consolidation pass, also when it is the last of its group, and its
\* task goes on to the next message or to the marks.
C38_ModelErrorChangesNothing ==
  \A id \in DOMAIN gt :
    g_msg[Message(gt[id])].llm_failed =>
      /\ gt[id].pc \notin {"apply", "consolidate"}
      /\ gt[id].commands = 0
      /\ ~g_msg[Message(gt[id])].open

\* the model call failed for the last message of a group of two, and the task
\* is at its marks without a consolidation pass
C38_Witness ==
  \E id \in DOMAIN gt :
    /\ Len(gt[id].messages) = 2
    /\ IsLast(gt[id])
    /\ gt[id].pc = "marks"
    /\ g_msg[Message(gt[id])].llm_failed

-----------------------------------------------------------------------------
\* C39: with time advancing and get_users_to_update called again and again,
\* every user that mark_update has marked is eventually in the list that a
\* get_users_to_update call returns; later marks leave the time of the first
\* mark of a pending tracker as it is.
C39_MarkedEventuallyReturned ==
  /\ \A u \in Users :
       (u \in DOMAIN tm._trackers /\ tm._trackers[u]._message_count > 0)
         ~> (g_call.done /\ u \in g_call.ret)
  /\ [][\A u \in DOMAIN tm._trackers :
          tm._trackers[u]._first_updated # NoTime /\ tm'._trackers[u]._message_count > 0
            => tm'._trackers[u]._first_updated = tm._trackers[u]._first_updated]_vars

\* a call returns a user that was marked twice, at two times, with fewer marks
\* than the message limit: returned for the time of its first mark
C39_Witness ==
  /\ g_call.done
  /\ \E u \in g_call.ret :
        /\ g_call.before[u]._message_count = 2
        /\ g_call.before[u]._message_count < tm._message_limit
        /\ now - g_call.before[u]._first_updated >= tm._time_limit_sec
        /\ now - g_call.before[u]._first_updated < tm._time_limit_sec + 10

\* the nodes reached from n by following next, up to the tail sentinel
RECURSIVE Linked(_, _, _)
Linked(nodes, n, fuel) ==
  IF n = TAIL \/ n = NoneRef \/ fuel = 0 THEN <<>>
  ELSE <<n>> \o Linked(nodes, nodes[n].next, fuel - 1)

LinkedNodes(c) == Linked(c.node, c.node[HEAD].next, Cardinality(DOMAIN c.node))

\* C40: after any sequence of get, put and erase on an LRUCache of capacity N
\* the lookup dict holds at most N keys; the nodes linked from the head
\* sentinel reach the tail sentinel, carry exactly the keys of the dict, each
\* once, and are the nodes the dict refers to; prev and next are mutually
\* consistent along the list; and erase of an absent key changes nothing.
C40_LRUStructure ==
  /\ [](LET l == LinkedNodes(lru)
             last == IF l = <<>> THEN HEAD ELSE l[Len(l)]
         IN  /\ Cardinality(DOMAIN lru.cache) <= lru.capacity
             /\ lru.capacity = lru_capacity
             /\ lru.node[last].next = TAIL
             /\ Len(l) = Cardinality(DOMAIN lru.cache)
             /\ {lru.node[l[i]].key : i \in 1..Len(l)} = DOMAIN lru.cache
             /\ \A i \in 1..Len(l) : lru.cache[lru.node[l[i]].key] = l[i]
             /\ \A n \in Range(l) \cup {HEAD} : lru.node[lru.node[n].next].prev = n
             /\ \A n \in Range(l) \cup {TAIL} : lru.node[lru.node[n].prev].next = n
             /\ lru.node[HEAD].prev = NoneRef
             /\ lru.node[TAIL].next = NoneRef)
  /\ [][lru_last' = "erase_miss" => lru' = lru]_vars

C40_Witness ==
  /\ lru_last = "erase_hit"
  /\ lru.capacity = 2
  /\ Cardinality(DOMAIN lru.cache) = 1
  /\ \E i \in 1..Len(touched) : touched[i] \notin DOMAIN lru.cache /\ touched[i] # touched[Len(touched)]
====
